---- MODULE Spec2Model ----
(***************************************************************************)
(* Radius execution pipeline: VariableResolver, SessionManager,            *)
(* ScriptSandbox / RadiusContextImpl and the RequestRunner orchestrator.   *)
(*                                                                         *)
(* Strings are sequences of pieces: a literal chunk of text or one         *)
(* {{name}} placeholder.  A variable name is a record [pre, id]: pre is    *)
(* "" for a plain name, "env." for an env.-prefixed name and "$" for a     *)
(* $identifier name.  Script values are records [t, v] carrying the        *)
(* JavaScript type tag and the text String(value) produces.                *)
(***************************************************************************)
EXTENDS Integers, Sequences, FiniteSets, TLC

\* ------------------------------------------------------------------------
\* Bounds of the model
\* ------------------------------------------------------------------------
MaxFiles == 3      \* requests executed by one runner
MaxOps == 1        \* radius/console calls made by the scripts of one request
MaxSources == 3    \* sources handed to a stand-alone resolver
MaxCalls == 2      \* calls made by the scripts run on a stand-alone sandbox
MaxChain == 3      \* values referring one to the next in a source
MaxJsonCalls == 2  \* response.json() calls made by one post-script
MaxGetters == 3    \* get calls made on one DotEnvSource

\* ------------------------------------------------------------------------
\* Strings, names, values
\* ------------------------------------------------------------------------
Plain(id) == [pre |-> "", id |-> id]
EnvName(id) == [pre |-> "env.", id |-> id]
Dollar(id) == [pre |-> "$", id |-> id]

Lit(s) == [k |-> "lit", n |-> Plain(s)]
Ph(name) == [k |-> "ph", n |-> name]

Undefined == [t |-> "undefined", v |-> "undefined"]
StrVal(s) == [t |-> "string", v |-> s]
NumVal(s) == [t |-> "number", v |-> s]
NullVal == [t |-> "object", v |-> "null"]
BoolVal(s) == [t |-> "boolean", v |-> s]

\* String(value): the text of a script value
ToStr(value) == <<Lit(value.v)>>

\* an absent string (a source's get returning undefined)
NoString == <<[k |-> "undefined", n |-> Plain("")]>>

EmptyMap == [x \in {} |-> Undefined]
MapGet(m, key, absent) == IF key \in DOMAIN m THEN m[key] ELSE absent
MapSet(m, key, value) == [x \in DOMAIN m \cup {key} |-> IF x = key THEN value ELSE m[x]]

\* ------------------------------------------------------------------------
\* VariableResolver
\* ------------------------------------------------------------------------
DefaultMaxDepth == 10

\* hasVariables that finds no placeholder in a value
hasVariablesNever(str) == FALSE

\* hasVariables: the string contains a {{...}} placeholder
hasVariables(str) == \E i \in 1..Len(str) : str[i].k = "ph"

\* template.matchAll(pattern): the placeholders of the template, in order
RECURSIVE matchAll(_)
matchAll(template) ==
    IF template = <<>> THEN <<>>
    ELSE IF Head(template).k = "ph"
         THEN <<Head(template)>> \o matchAll(Tail(template))
         ELSE matchAll(Tail(template))

\* what String.prototype.replace makes of a replacement given as a string:
\* $$ stands for one $, $& for the text matched, and $1 stays as written
\* because a string pattern captures nothing
substitution(piece, fullMatch) ==
    IF piece = Lit("$$") THEN Lit("$")
    ELSE IF piece = Lit("$&") THEN fullMatch
    ELSE piece
getSubstitution(value, fullMatch) ==
    CHOOSE replacement \in
        {[i \in 1..Len(v) |-> substitution(v[i], fullMatch)] : v \in {value}} : TRUE

\* result.replace(fullMatch, value): the first occurrence only
RECURSIVE replaceFirst(_, _, _)
replaceFirst(result, fullMatch, value) ==
    IF result = <<>> THEN <<>>
    ELSE IF Head(result) = fullMatch THEN getSubstitution(value, fullMatch) \o Tail(result)
         ELSE <<Head(result)>> \o replaceFirst(Tail(result), fullMatch, value)

\* sortSources without the sort: the sources stay in the order passed
sortSourcesMissing(sources) == sources

\* [...sources].sort((a, b) => b.priority - a.priority): stable insertion
RECURSIVE sortSources(_)
\* InsertByPriority that puts a source in front of those of its priority
InsertByPriorityBeforeTies(sorted, s) ==
    LET before == {i \in 1..Len(sorted) : sorted[i].priority > s.priority}
        n == Cardinality(before)
    IN  SubSeq(sorted, 1, n) \o <<s>> \o SubSeq(sorted, n + 1, Len(sorted))

\* the place the stable sort gives a source among those sorted so far:
\* behind every source of higher or equal priority
InsertByPriority(sorted, s) ==
    LET before == {i \in 1..Len(sorted) : sorted[i].priority >= s.priority}
        n == Cardinality(before)
    IN  SubSeq(sorted, 1, n) \o <<s>> \o SubSeq(sorted, n + 1, Len(sorted))
sortSources(sources) ==
    IF sources = <<>> THEN <<>>
    ELSE InsertByPriority(sortSources(SubSeq(sources, 1, Len(sources) - 1)),
                          sources[Len(sources)])

\* SessionVariableSource.get
SessionSourceGet(sessionVariables, key) ==
    LET value == MapGet(sessionVariables, key, Undefined)
    IN  IF value # Undefined THEN ToStr(value) ELSE NoString

\* source.get(key): a source is [name, priority, values]; the Session
\* source reads the live session, the others their own values
SourceGet(source, key, sessionVariables) ==
    IF source.name = "Session" THEN SessionSourceGet(sessionVariables, key)
    ELSE MapGet(source.values, key, NoString)

\* name.slice(envPrefix.length): the name that the text after env. spells
slice(id) ==
    CASE id = "$uuid" -> Dollar("uuid")
      [] id = "env.a" -> EnvName("a")
      [] OTHER -> Plain(id)

\* VariableResolver.lookup; lookupWithPrefix keeps the env. prefix
RECURSIVE lookupIn(_, _, _)
lookupIn(sources, sess, lookupName) ==
    IF sources = <<>> THEN NoString
    ELSE LET value == SourceGet(Head(sources), lookupName, sess)
         IN  IF value # NoString THEN value
             ELSE lookupIn(Tail(sources), sess, lookupName)
lookupWithPrefix(sources, sess, name) == lookupIn(sources, sess, name)
lookup(sources, sess, name) ==
    LET lookupName == IF name.pre = "env." THEN slice(name.id) ELSE name
    IN  lookupIn(sources, sess, lookupName)

\* name.toLowerCase(), over the identifiers that are not lower case already
toLowerCase(id) ==
    CASE id = "UUID" -> "uuid"
      [] id = "randomInt" -> "randomint"
      [] OTHER -> id

\* the values the generators hand out, one per call: crypto.randomUUID(),
\* Date.now(), new Date() and Math.random() answer each call anew
Generated == <<"g1", "g2", "g3", "g4", "g5", "g6">>

\* resolveBuiltin that never generates: every $name goes to the sources
resolveBuiltinNever(id, generated) == NoString

\* VariableResolver.resolveBuiltin: the generated text is opaque; generated
\* is the number of values generated before this call
BuiltinNames == {"uuid", "timestamp", "isodate", "randomint"}
resolveBuiltin(id, generated) ==
    IF toLowerCase(id) \in BuiltinNames
    THEN <<[k |-> "gen", n |-> [pre |-> toLowerCase(id), id |-> Generated[generated + 1]]]>>
    ELSE NoString

DepthExceeded == [status |-> "depth", value |-> <<>>, unresolved |-> <<>>]

\* a depth test that already fails at the maximum depth
exceedsMaxDepthAtLimit(depth, maxDepth) == depth >= maxDepth

\* depth > this.options.maxDepth
exceedsMaxDepth(depth, maxDepth) == depth > maxDepth

\* VariableResolver.resolveWithInfo; generated counts the values the
\* generators have handed out so far in the outermost call
RECURSIVE resolveWithInfo(_, _, _, _, _, _)
RECURSIVE resolveMatches(_, _, _, _, _, _, _, _)
resolveMatches(sources, sess, maxDepth, matches, result, unresolved, depth, generated) ==
    IF matches = <<>>
    THEN [status |-> "ok", value |-> result, unresolved |-> unresolved,
          generated |-> generated]
    ELSE LET fullMatch == Head(matches)
             varName == fullMatch.n
             builtinValue == IF varName.pre = "$"
                             THEN resolveBuiltin(varName.id, generated)
                             ELSE NoString
             value == lookup(sources, sess, varName)
         IN  IF builtinValue # NoString
             THEN resolveMatches(sources, sess, maxDepth, Tail(matches),
                      replaceFirst(result, fullMatch, builtinValue), unresolved, depth,
                      generated + 1)
             ELSE IF value # NoString
             THEN IF hasVariables(value)
                  THEN LET nested == resolveWithInfo(sources, sess, maxDepth, value,
                                                     depth + 1, generated)
                       IN  IF nested.status # "ok" THEN nested
                           ELSE resolveMatches(sources, sess, maxDepth, Tail(matches),
                                    replaceFirst(result, fullMatch, nested.value),
                                    unresolved \o nested.unresolved, depth,
                                    nested.generated)
                  ELSE resolveMatches(sources, sess, maxDepth, Tail(matches),
                           replaceFirst(result, fullMatch, value), unresolved, depth,
                           generated)
             ELSE resolveMatches(sources, sess, maxDepth, Tail(matches), result,
                      Append(unresolved, varName), depth, generated)
resolveWithInfo(sources, sess, maxDepth, template, depth, generated) ==
    IF exceedsMaxDepth(depth, maxDepth) THEN DepthExceeded
    ELSE resolveMatches(sources, sess, maxDepth, matchAll(template), template, <<>>,
                        depth, generated)

\* the end of resolve: in strict mode a result with unresolved names is
\* thrown as the unresolved-variables failure, else the value is returned
throwIfUnresolved(result, strict) ==
    IF result.status = "ok" /\ strict /\ Len(result.unresolved) > 0
    THEN [status |-> "unresolved", value |-> <<>>, unresolved |-> result.unresolved]
    ELSE [status |-> result.status, value |-> result.value,
          unresolved |-> result.unresolved]

\* resolve without the strict-mode check
resolveLenientOnly(sources, sess, strict, maxDepth, template) ==
    LET result == resolveWithInfo(sources, sess, maxDepth, template, 0, 0)
    IN  [status |-> result.status, value |-> result.value,
         unresolved |-> result.unresolved]

\* VariableResolver.resolve
resolve(sources, sess, strict, maxDepth, template) ==
    throwIfUnresolved(resolveWithInfo(sources, sess, maxDepth, template, 0, 0), strict)

\* VariableResolver.resolveObject applied to a request: every string leaf
\* is resolved; the first failure aborts the whole call
resolvedLeaves(url, headers, body, obj) ==
    [status |-> IF url.status # "ok" THEN url.status
                ELSE IF headers.status # "ok" THEN headers.status
                ELSE body.status,
     value |-> [url |-> url.value, headers |-> headers.value, body |-> body.value,
                pre |-> obj.pre, post |-> obj.post]]
resolveObject(sources, sess, strict, maxDepth, obj) ==
    resolvedLeaves(resolve(sources, sess, strict, maxDepth, obj.url),
                   resolve(sources, sess, strict, maxDepth, obj.headers),
                   resolve(sources, sess, strict, maxDepth, obj.body), obj)

\* ------------------------------------------------------------------------
\* SessionManager
\* ------------------------------------------------------------------------
SessionPriority == 500

\* SessionManager.getAll
getAll(variables) == [key \in DOMAIN variables |-> variables[key]]

\* merge that keeps the value of a name the session already holds
mergeKeepExisting(variables, incoming) ==
    [key \in DOMAIN variables \cup DOMAIN incoming |->
        IF key \in DOMAIN variables THEN variables[key] ELSE incoming[key]]

\* SessionManager.merge
merge(variables, incoming) ==
    [key \in DOMAIN variables \cup DOMAIN incoming |->
        IF key \in DOMAIN incoming THEN incoming[key] ELSE variables[key]]

\* JSON.stringify of one value: the token written for it.  A number that
\* is not finite is written as null
NonFinite == {"NaN", "Infinity", "-Infinity"}
stringifyValue(value) ==
    CASE value.t = "string" -> [j |-> "string", text |-> value.v]
      [] value.t = "number" /\ value.v \notin NonFinite -> [j |-> "number", text |-> value.v]
      [] value.t = "boolean" -> [j |-> "literal", text |-> value.v]
      [] OTHER -> [j |-> "literal", text |-> "null"]

\* JSON.stringify(object, null, 2): a property whose value is undefined is
\* left out
stringify(obj) ==
    [key \in {k \in DOMAIN obj : obj[k] # Undefined} |-> stringifyValue(obj[key])]

\* JSON.parse of one token
parseValue(token) ==
    CASE token.j = "string" -> StrVal(token.text)
      [] token.j = "number" -> NumVal(token.text)
      [] token.text = "null" -> NullVal
      [] OTHER -> BoolVal(token.text)

\* JSON.parse(content)
parse(content) == [key \in DOMAIN content |-> parseValue(content[key])]

\* SessionManager.saveToFile: the content written to the file
saveToFile(variables) == stringify(getAll(variables))

\* SessionManager.loadFromFile: the variables after the call
loadFromFile(variables, content) == merge(variables, parse(content))

\* getVariableSource ranking the session below every other source
getVariableSourceLowest == [name |-> "Session", priority |-> 50, values |-> EmptyMap]

\* SessionManager.getVariableSource
getVariableSource == [name |-> "Session", priority |-> SessionPriority, values |-> EmptyMap]

\* ------------------------------------------------------------------------
\* The sources of a run: environment profile, .env files, process.env
\* ------------------------------------------------------------------------
ProfilePriority == 400
DotEnvPriority == 200
SystemEnvPriority == 100

EnvironmentVariableSource ==
    [name |-> "Environment", priority |-> ProfilePriority,
     values |-> (Plain("baseUrl") :> <<Lit("http://h")>>)
             @@ (Plain("api") :> <<Ph(Plain("baseUrl")), Lit("/api")>>)
             @@ (Plain("token") :> <<Lit("P-token")>>)
             @@ (Plain("loop") :> <<Ph(Plain("loop"))>>)]

DotEnvSource ==
    [name |-> "DotEnv", priority |-> DotEnvPriority,
     values |-> (Plain("KEY") :> <<Lit("D-key")>>)
             @@ (Plain("token") :> <<Lit("D-token")>>)]

SystemEnvSource ==
    [name |-> "SystemEnv", priority |-> SystemEnvPriority,
     values |-> (Plain("KEY") :> <<Lit("S-key")>>)
             @@ (Plain("id") :> <<Lit("S-id")>>)]

\* RequestRunner.buildVariableSources
buildVariableSources(variableSources) ==
    variableSources \o <<DotEnvSource>> \o <<SystemEnvSource>>

\* ------------------------------------------------------------------------
\* RadiusContextImpl and ScriptSandbox
\* ------------------------------------------------------------------------
\* resetContext that keeps the variables of the old context
resetContextKeeping(variables) == variables

\* ScriptSandbox.resetContext: a new RadiusContextImpl, no variables
resetContext(variables) == EmptyMap

\* RadiusContextImpl.setVariables
setVariables(variables, vars) ==
    [key \in DOMAIN variables \cup DOMAIN vars |->
        IF key \in DOMAIN vars THEN vars[key] ELSE variables[key]]

\* RadiusContextImpl.getVariables
getVariables(variables) == [key \in DOMAIN variables |-> variables[key]]

\* ExpectBuilderImpl.toBe
toBe(actual, expected) ==
    [passed |-> (actual = expected), expected |-> expected, actual |-> actual]

\* a wrapped builder that records passing outcomes only
recordAssertionIfPassed(assertions, result) ==
    IF result.passed THEN Append(assertions, result) ELSE assertions

\* the wrapped builder of RadiusContextImpl.expect: self.assertions.push
recordAssertion(assertions, result) == Append(assertions, result)

\* the environment handed to the sandbox: options.env, or absent
NoEnv == [x \in {"absent"} |-> Undefined]
HostEnvironments ==
    {("HOME" :> StrVal("/root")), ("HOME" :> StrVal("/home/ci"))}
SuppliedEnv == ("API" :> StrVal("k1"))

\* new RequestRunner(options): the options of its ScriptSandbox carry a
\* timeout and no env
RunnerSandboxOptions == [env |-> NoEnv]

\* ScriptSandbox constructor: this.env = options.env ?? process.env
sandboxEnvOf(options, hostEnv) == IF options.env = NoEnv THEN hostEnv ELSE options.env

\* RadiusContextImpl.getEnv
getEnv(envVars, name) == MapGet(envVars, name, Undefined)

\* the global scope executeScript builds for the script: the radius and
\* console objects and the safe built-ins are host objects, the blocked
\* names are own properties holding undefined
BlockedNames ==
    {"process", "require", "module", "exports", "__dirname", "__filename",
     "global", "globalThis", "fetch", "XMLHttpRequest", "WebSocket", "Buffer",
     "setTimeout", "setInterval", "setImmediate",
     "clearTimeout", "clearInterval", "clearImmediate"}
ExposedNames == {"radius", "console", "JSON", "Math"}
HostObject(name) == [t |-> "host", v |-> name]

\* a scope that leaves process to the host
sandboxScopeDelegating ==
    [name \in BlockedNames \cup ExposedNames |->
        IF name \in BlockedNames \ {"process"} THEN Undefined ELSE HostObject(name)]

sandboxScope ==
    [name \in BlockedNames \cup ExposedNames |->
        IF name \in BlockedNames THEN Undefined ELSE HostObject(name)]

\* what a script can throw: `throw new Error(m)` builds a host Error (Error
\* of the scope is the host's), an error the engine raises inside the
\* script (a property access on undefined) belongs to the script's own
\* realm, and the timeout error is raised by the host
ThrownMessage == "boom"
RaisedMessage == "Cannot read properties of undefined"
TimeoutMessage == "Script execution timed out"
UnknownError == "Unknown error"
Stops == {"ok", "throw", "raise", "timeout"}
thrownBy(how) ==
    CASE how = "throw" -> [realm |-> "host", message |-> ThrownMessage]
      [] how = "raise" -> [realm |-> "script", message |-> RaisedMessage]
      [] how = "timeout" -> [realm |-> "host", message |-> TimeoutMessage]

\* error instanceof Error ? error.message : 'Unknown error'
errorMessage(error) == IF error.realm = "host" THEN error.message ELSE UnknownError

\* executeScript whose catch block returns nothing of what the script did
executeScriptEmptyOnFailure(how, console, logs, variables, assertions) ==
    [success |-> (how = "ok"),
     error |-> IF how = "ok" THEN "" ELSE errorMessage(thrownBy(how)),
     logs |-> IF how = "ok" THEN console \o logs ELSE <<>>,
     variables |-> IF how = "ok" THEN getVariables(variables) ELSE EmptyMap,
     assertions |-> IF how = "ok" THEN assertions ELSE <<>>]

\* ScriptSandbox.executeScript: the result once the script has stopped as
\* `how` says (ran to its end, threw, or was interrupted by the timeout)
executeScript(how, console, logs, variables, assertions) ==
    [success |-> (how = "ok"),
     error |-> IF how = "ok" THEN "" ELSE errorMessage(thrownBy(how)),
     logs |-> console \o logs,
     variables |-> getVariables(variables),
     assertions |-> assertions]

NoScriptResult ==
    [success |-> FALSE, error |-> "none", logs |-> <<>>, variables |-> EmptyMap,
     assertions |-> <<>>]

\* ------------------------------------------------------------------------
\* RequestRunner
\* ------------------------------------------------------------------------
NoResponse ==
    [status |-> -1, statusText |-> "", body |-> <<>>, url |-> <<>>,
     scriptLogs |-> <<>>, assertions |-> <<>>]

\* RequestRunner.createErrorResponse
createErrorResponse(message, url) ==
    [status |-> 0, statusText |-> "Error", body |-> message, url |-> url,
     scriptLogs |-> <<>>, assertions |-> <<>>]

\* HttpClient.getStatusText
getStatusText(status) ==
    CASE status = 200 -> "OK"
      [] status = 404 -> "Not Found"
      [] OTHER -> "Unknown"

\* HttpClient.execute with a catch block that drops the error's message
clientExecuteDroppingMessage(req, answer) ==
    [status |-> IF answer.error = "none" THEN answer.statusCode ELSE 0,
     statusText |-> IF answer.error = "none" THEN getStatusText(answer.statusCode)
                    ELSE "Error",
     body |-> IF answer.error = "none" THEN answer.body ELSE <<>>,
     url |-> req.url, scriptLogs |-> <<>>, assertions |-> <<>>]

\* HttpClient.execute: the response undici's request() resolved with, or
\* the error it rejected with turned into a response, around the request
\* actually sent
clientExecute(req, answer) ==
    IF answer.error = "none"
    THEN [status |-> answer.statusCode, statusText |-> getStatusText(answer.statusCode),
          body |-> answer.body, url |-> req.url, scriptLogs |-> <<>>, assertions |-> <<>>]
    ELSE [status |-> 0, statusText |-> "Error", body |-> <<answer.error>>,
          url |-> req.url, scriptLogs |-> <<>>, assertions |-> <<>>]

\* what request() does: it resolves with a response or rejects with an
\* error (refused connection, DNS failure, timeout)
Answers ==
    {[error |-> "none", statusCode |-> 200, body |-> <<"{}">>],
     [error |-> "connect ECONNREFUSED", statusCode |-> -1, body |-> <<>>]}

\* stage changes that go on after a failed pre-script, and that send the
\* request again after the post-script
afterPreScriptIgnoringFailure(preResult) == "transport"
afterPostScriptResending(postResult) == "transport"

\* the stage that follows each stage of execute
afterResolve(req) == IF req.pre THEN "pre" ELSE "transport"
afterPreScript(preResult) == IF ~preResult.success THEN "done" ELSE "transport"
afterTransport(req) == IF req.post THEN "post" ELSE "done"
afterPostScript(postResult) == "done"

\* requestToSend re-resolving the request after the pre-script
requestToSendResolvedAgain(resolvedRequest, req, srcs, sess) ==
    resolveObject(srcs, sess, FALSE, DefaultMaxDepth, req).value

\* the request execute hands to the transport
requestToSend(resolvedRequest, req, srcs, sess) == resolvedRequest

\* persistVariables that drops the variables of a failed script
persistVariablesOnSuccess(attached, variables, result) ==
    IF attached /\ result.success /\ Cardinality(DOMAIN result.variables) > 0
    THEN merge(variables, result.variables)
    ELSE variables

\* the session after a script: merge when a session is attached and the
\* script result has variables
persistVariables(attached, variables, result) ==
    IF attached /\ Cardinality(DOMAIN result.variables) > 0
    THEN merge(variables, result.variables)
    ELSE variables

\* sessionAfterPreScript with the merge placed before the failure check
sessionAfterPreScriptMerging(attached, variables, preResult) ==
    persistVariables(attached, variables, preResult)

\* the session after the pre-script: execute returns on failure (lines
\* 99-105) before it reaches the merge (lines 108-110)
sessionAfterPreScript(attached, variables, preResult) ==
    IF ~preResult.success THEN variables
    ELSE persistVariables(attached, variables, preResult)

\* sessionAfterPostScript that empties the session when the script failed
sessionAfterPostScriptClearing(attached, variables, postResult) ==
    IF ~postResult.success THEN EmptyMap
    ELSE persistVariables(attached, variables, postResult)

\* the session after the post-script: a failure is only warned about
\* (lines 120-123) and the merge (lines 126-128) runs either way
sessionAfterPostScript(attached, variables, postResult) ==
    persistVariables(attached, variables, postResult)

\* attachScriptOutput turning a post-script failure into an error response
attachScriptOutputOrError(resp, postResult) ==
    IF ~postResult.success
    THEN createErrorResponse(<<"Post-script error: ", postResult.error>>, resp.url)
    ELSE resp

\* the response execute returns after the post-script
attachScriptOutput(resp, postResult) ==
    [resp EXCEPT
        !.scriptLogs = IF Len(postResult.logs) > 0 THEN postResult.logs ELSE @,
        !.assertions = IF Len(postResult.assertions) > 0 THEN postResult.assertions ELSE @]

\* ------------------------------------------------------------------------
\* State
\* ------------------------------------------------------------------------
VARIABLES
    pc,                \* position of execute: idle, pre, transport, post, done
    fileIdx,           \* requests completed by this runner
    userSources,       \* options.variableSources
    sources,           \* resolver.sources (sorted)
    sessionAttached,   \* runner.session # null
    sessionVariables,  \* SessionManager.variables
    request,           \* the request passed to execute
    resolved,          \* the resolved request
    ctxVariables,      \* sandbox.context.variables
    ctxLogs,           \* sandbox.context.logs
    ctxAssertions,     \* sandbox.context.assertions
    consoleLogs,       \* consoleLogs of the running executeScript
    ops,               \* calls made by the scripts of this request
    response,          \* the response held / returned by execute
    outcome,           \* none, returned, raised
    \* history of the current execute and of the run
    stages,            \* stages completed, in order
    sent,              \* request handed to the transport
    fromTransport,     \* response the transport returned
    written,           \* setVariable calls of the running script
    preWritten,        \* setVariable calls of the pre-script
    postRecorded,      \* outcomes recorded by the post-script
    sessionAtEntry,    \* session contents when execute was entered
    preHow,            \* how the pre-script stopped: none, ok, throw, timeout
    postHow,           \* how the post-script stopped
    lastMerged,        \* latest script write merged into the session
    mergedAtEntry,     \* lastMerged when execute was entered
    calls,             \* calls of the running (or last) script, in call order
    scriptResult,      \* what the last runPre / runPost returned
    \* the sandbox and its host
    processEnv,        \* process.env of the host
    sandboxOptions,    \* options the ScriptSandbox was built with
    sandboxEnv,        \* sandbox.env
    lastRead,          \* what the script obtained last from getEnv or its scope
    loop,              \* infinite loop of the script: none, sync, microtask, spinning
    \* a stand-alone VariableResolver
    rInput,            \* the sources as passed to the constructor
    rSources,          \* resolver.sources
    rStrict,           \* options.strict
    rMaxDepth,         \* options.maxDepth
    rTemplate,         \* the template of the last resolve call
    rResult,           \* what the last resolve call produced
    \* the call in progress
    answered,          \* what the network did with the request sent
    supplied,          \* the variables passed to executeWithVariables
    \* the radius run command
    cliPc,             \* position of runCommand: none, start, loop, save, exited
    target,            \* what the path argument names
    files,             \* the files to run, as findRdFiles returned them
    results,           \* runDirectory's results / runFile's verdict
    exitCode,          \* -1 while the process runs, then its exit code
    saveVars,          \* options.saveVars is given
    file,              \* content of the saved session file
    saved,             \* getAll() of the Session when it was saved
    \* a toEqual check
    expectation,       \* the values compared and the outcome recorded
    \* a post-script and the response it is given
    httpResponse,      \* the response object execute holds and returns
    fromClient,        \* what that object held when the transport returned it
    view,              \* the ResponseContextImpl given to the script
    jsonCalls,         \* the outcome of each response.json() call
    handle,            \* the value the last json() call returned
    \* a DotEnvSource and the callers of its get
    dotenv,            \* its cache and loaded fields
    getters            \* position of each get call, and what it returned

vars == <<pc, fileIdx, userSources, sources, sessionAttached, sessionVariables,
          request, resolved, ctxVariables, ctxLogs, ctxAssertions, consoleLogs,
          ops, response, outcome, stages, sent, fromTransport, written,
          preWritten, postRecorded, sessionAtEntry, preHow, postHow,
          lastMerged, mergedAtEntry, calls, scriptResult, processEnv,
          sandboxOptions, sandboxEnv, lastRead, loop,
          rInput, rSources, rStrict, rMaxDepth, rTemplate, rResult,
          answered, supplied,
          cliPc, target, files, results, exitCode, saveVars, file, saved,
          expectation, httpResponse, fromClient, view, jsonCalls, handle,
          dotenv, getters>>

runVars == <<cliPc, target, files, results, exitCode, saveVars>>
cliVars == <<runVars, file, saved>>
responseVars == <<httpResponse, fromClient, view, jsonCalls, handle>>
dotenvVars == <<dotenv, getters>>
libraryVars == <<expectation, responseVars, dotenvVars>>
resolverVars == <<rInput, rSources, rStrict, rMaxDepth, rTemplate, rResult>>
hostVars == <<processEnv, sandboxOptions, sandboxEnv, lastRead, loop>>

NoRead == [kind |-> "none", name |-> "", value |-> Undefined]

NoResult == [status |-> "none", value |-> <<>>, unresolved |-> <<>>]

\* undici's request() has not been called
NoAnswer == [error |-> "none", statusCode |-> -1, body |-> <<>>]

\* no file has been written
NoFile == [written |-> FALSE, failed |-> FALSE, data |-> EmptyMap]
NoTarget == [kind |-> "none", entries |-> <<>>]

\* a value of the script language, for toEqual: a primitive with its text,
\* or a mapping or a sequence with a value under each of its keys
JsPrimitive(kind, text) == [kind |-> kind, prim |-> text, fields |-> EmptyMap]
JsUndefined == JsPrimitive("undefined", "undefined")
JsNull == JsPrimitive("null", "null")
JsMapping(fields) == [kind |-> "mapping", prim |-> "", fields |-> fields]
JsSequence(fields) == [kind |-> "sequence", prim |-> "", fields |-> fields]

\* no toEqual check has been made
NoExpectation ==
    [made |-> FALSE, actual |-> JsUndefined, expected |-> JsUndefined, passed |-> FALSE]

\* a parsed JSON document: null, or an object with a text under each key
JsonNull == [kind |-> "null", fields |-> EmptyMap]
JsonObject(fields) == [kind |-> "object", fields |-> fields]

\* no response, no view of one, no value returned by json()
NoHttpResponse ==
    [status |-> 0, statusText |-> "", headers |-> EmptyMap, body |-> "", json |-> JsonNull]
NoView ==
    [made |-> FALSE, status |-> 0, statusText |-> "", headers |-> EmptyMap, body |-> "",
     json |-> JsonNull, jsonParsed |-> FALSE]
NoHandle == [from |-> "none", value |-> JsonNull]

\* new DotEnvSource(options): cache = null, loaded = false; no get call yet
NewDotEnv == [hasCache |-> FALSE, cache |-> EmptyMap, loaded |-> FALSE]
NotInCache == "(undefined)"
NoGet == [at |-> "idle", key |-> "", value |-> NotInCache]

\* no check, no post-script and no DotEnvSource is looked at on its own
LibraryIdle ==
    /\ expectation = NoExpectation
    /\ httpResponse = NoHttpResponse
    /\ fromClient = NoHttpResponse
    /\ view = NoView
    /\ jsonCalls = <<>>
    /\ handle = NoHandle
    /\ dotenv = NewDotEnv
    /\ getters = [g \in 1..MaxGetters |-> NoGet]

\* the runner is used as a library, not through the run command
CliIdle ==
    /\ cliPc = "none"
    /\ target = NoTarget
    /\ files = <<>>
    /\ results = <<>>
    /\ exitCode = -1
    /\ saveVars = FALSE
    /\ file = NoFile
    /\ saved = EmptyMap

\* the resolver is not used on its own during a run
ResolverIdle ==
    /\ rInput = <<>>
    /\ rSources = <<>>
    /\ rStrict = FALSE
    /\ rMaxDepth = DefaultMaxDepth
    /\ rTemplate = <<>>
    /\ rResult = NoResult

\* the setVariable calls and expect values the scripts choose from
ScriptValues == {StrVal("T1"), NumVal("42")}
ScriptWrites ==
    {[name |-> Plain("token"), value |-> StrVal("T1")],
     [name |-> Plain("token"), value |-> NumVal("42")],
     [name |-> Plain("id"), value |-> NumVal("42")]}
ScriptNames == {w.name : w \in ScriptWrites}

\* the variables a caller passes to executeWithVariables, and the request
\* it passes them with
SuppliedVariables == {(Plain("extra") :> StrVal("E1"))}
SuppliedRequests ==
    {[url |-> <<Lit("http://h/")>>, headers |-> <<>>, body |-> <<>>,
      pre |-> TRUE, post |-> TRUE]}

NoRequest == [url |-> <<>>, headers |-> <<>>, body |-> <<>>, pre |-> FALSE, post |-> FALSE]

Shapes ==
    {[url |-> <<Ph(Plain("api")), Lit("/u/"), Ph(Plain("id"))>>,
      headers |-> <<Lit("Bearer "), Ph(Plain("token"))>>,
      body |-> <<Lit("i="), Ph(Plain("id")), Lit("&t="), Ph(Plain("token"))>>],
     [url |-> <<Lit("http://h/"), Ph(EnvName("KEY"))>>,
      headers |-> <<Ph(Plain("missing"))>>,
      body |-> <<Ph(Plain("token")), Ph(Plain("token"))>>],
     [url |-> <<Ph(Plain("loop"))>>,
      headers |-> <<>>,
      body |-> <<Ph(Plain("token"))>>]}

\* scripts.pre and scripts.post are optional; a request that has both
\* behaves as one that lacks a script whenever that script makes no call
ScriptConfigs ==
    {[pre |-> TRUE, post |-> TRUE], [pre |-> FALSE, post |-> TRUE],
     [pre |-> TRUE, post |-> FALSE], [pre |-> FALSE, post |-> FALSE]}

Requests ==
    {[url |-> s.url, headers |-> s.headers, body |-> s.body, pre |-> c.pre, post |-> c.post] :
        s \in Shapes, c \in {x \in ScriptConfigs : x.pre /\ x.post}}
    \cup
    {[url |-> s.url, headers |-> s.headers, body |-> s.body, pre |-> c.pre, post |-> c.post] :
        s \in {x \in Shapes : Len(x.headers) = 2}, c \in ScriptConfigs}

\* new RequestRunner(options), as createRunner builds it with or without
\* an environment profile; the SessionManager is new and empty
Init ==
    /\ pc = "idle"
    /\ answered = NoAnswer
    /\ supplied = EmptyMap
    /\ CliIdle
    /\ LibraryIdle
    /\ fileIdx = 0
    /\ userSources = <<EnvironmentVariableSource>>
    /\ sources = sortSources(buildVariableSources(userSources))
    /\ sessionAttached = FALSE
    /\ sessionVariables = EmptyMap
    /\ request = NoRequest
    /\ resolved = NoRequest
    /\ ctxVariables = EmptyMap
    /\ ctxLogs = <<>>
    /\ ctxAssertions = <<>>
    /\ consoleLogs = <<>>
    /\ ops = 0
    /\ response = NoResponse
    /\ outcome = "none"
    /\ stages = <<>>
    /\ sent = NoRequest
    /\ fromTransport = NoResponse
    /\ written = EmptyMap
    /\ preWritten = EmptyMap
    /\ postRecorded = <<>>
    /\ sessionAtEntry = EmptyMap
    /\ preHow = "none"
    /\ postHow = "none"
    /\ lastMerged = EmptyMap
    /\ mergedAtEntry = EmptyMap
    /\ calls = <<>>
    /\ scriptResult = NoScriptResult
    /\ processEnv = ("HOME" :> StrVal("/root"))
    /\ sandboxOptions = RunnerSandboxOptions
    /\ sandboxEnv = sandboxEnvOf(sandboxOptions, processEnv)
    /\ lastRead = NoRead
    /\ loop = "none"
    /\ ResolverIdle

\* RequestRunner.setSession, called by createRunner before the first run
SetSession ==
    /\ pc = "idle"
    /\ fileIdx = 0
    /\ UNCHANGED resolverVars
    /\ UNCHANGED cliVars
    /\ UNCHANGED libraryVars
    /\ UNCHANGED <<answered, supplied>>
    /\ ~sessionAttached
    /\ sessionAttached' = TRUE
    /\ sources' = sortSources(<<getVariableSource>> \o buildVariableSources(userSources))
    /\ UNCHANGED <<pc, fileIdx, userSources, sessionVariables, request, resolved,
                   ctxVariables, ctxLogs, ctxAssertions, consoleLogs, ops, response,
                   outcome, stages, sent, fromTransport, written, preWritten,
                   postRecorded, sessionAtEntry, preHow, postHow, lastMerged,
                   mergedAtEntry, calls, scriptResult>>
    /\ UNCHANGED hostVars

\* the strict option a VariableResolver has when none is passed
resolverDefaultStrict == TRUE

\* the strict option the runner builds its resolvers with, in its
\* constructor and again in setSession
runnerStrict == FALSE

\* RequestRunner.execute up to the end of the Resolve stage; `before` is
\* the sandbox variable map the call finds and `given` the variables its
\* caller passed to executeWithVariables
ExecuteEntry(req, before, given) ==
    LET fresh == resetContext(before)
        seeded == IF sessionAttached THEN setVariables(fresh, getAll(sessionVariables))
                  ELSE fresh
    IN  \E res \in {resolveObject(sources, sessionVariables, runnerStrict,
                                   DefaultMaxDepth, req)} :
        /\ pc = "idle"
        /\ fileIdx < MaxFiles
        /\ UNCHANGED resolverVars
        /\ UNCHANGED cliVars
        /\ UNCHANGED libraryVars
        /\ answered' = NoAnswer
        /\ supplied' = given
        /\ request' = req
        /\ ctxVariables' = seeded
        /\ ctxLogs' = <<>>
        /\ ctxAssertions' = <<>>
        /\ consoleLogs' = <<>>
        /\ ops' = 0
        /\ response' = NoResponse
        /\ stages' = <<"Resolve">>
        /\ sent' = NoRequest
        /\ fromTransport' = NoResponse
        /\ written' = EmptyMap
        /\ preWritten' = EmptyMap
        /\ postRecorded' = <<>>
        /\ sessionAtEntry' = sessionVariables
        /\ preHow' = "none"
        /\ postHow' = "none"
        /\ mergedAtEntry' = lastMerged
        /\ calls' = <<>>
        /\ scriptResult' = NoScriptResult
        /\ UNCHANGED hostVars
        /\ IF res.status # "ok"
           THEN /\ resolved' = NoRequest
                /\ outcome' = "raised"
                /\ pc' = "done"
           ELSE /\ resolved' = res.value
                /\ outcome' = "none"
                /\ pc' = afterResolve(res.value)
        /\ UNCHANGED <<fileIdx, userSources, sources, sessionAttached,
                       sessionVariables, lastMerged>>

\* RequestRunner.execute(request)
Execute(req) == ExecuteEntry(req, ctxVariables, EmptyMap)

\* RequestRunner.executeWithVariables(request, variables)
ExecuteWithVariables(req, variables) ==
    ExecuteEntry(req, setVariables(ctxVariables, variables), variables)


unchangedByScriptCall ==
    <<pc, fileIdx, userSources, sources, sessionAttached, sessionVariables,
      request, resolved, response, outcome, stages, sent, fromTransport,
      preWritten, sessionAtEntry, preHow, postHow, lastMerged, mergedAtEntry,
      scriptResult, processEnv, sandboxOptions, sandboxEnv, loop,
      rInput, rSources, rStrict, rMaxDepth, rTemplate, rResult,
      answered, supplied, cliVars, libraryVars>>

\* a script is running, inside execute or in a runPre / runPost call made
\* on the sandbox directly, and may make one more call
scriptRunning ==
    \/ pc \in {"pre", "post"} /\ ops < MaxOps
    \/ pc \in {"runPre", "runPost"} /\ ops < MaxCalls

\* RadiusContextImpl.setVariable, called by the running script
SetVariable(name, value) ==
    /\ scriptRunning
    /\ ops' = ops + 1
    /\ ctxVariables' = MapSet(ctxVariables, name, value)
    /\ written' = MapSet(written, name, value)
    /\ calls' = Append(calls, [op |-> "setVariable", name |-> name, value |-> value])
    /\ lastRead' = NoRead
    /\ UNCHANGED <<ctxLogs, ctxAssertions, consoleLogs, postRecorded>>
    /\ UNCHANGED unchangedByScriptCall

\* RadiusContextImpl.log; the text logged is the number of the call
Log ==
    /\ scriptRunning
    /\ ops' = ops + 1
    /\ ctxLogs' = Append(ctxLogs, ops + 1)
    /\ calls' = Append(calls, [op |-> "log", text |-> ops + 1])
    /\ lastRead' = NoRead
    /\ UNCHANGED <<ctxVariables, ctxAssertions, consoleLogs, written, postRecorded>>
    /\ UNCHANGED unchangedByScriptCall

\* safeConsole.log of executeScript
ConsoleLog ==
    /\ scriptRunning
    /\ ops' = ops + 1
    /\ consoleLogs' = Append(consoleLogs, ops + 1)
    /\ calls' = Append(calls, [op |-> "console", text |-> ops + 1])
    /\ lastRead' = NoRead
    /\ UNCHANGED <<ctxVariables, ctxAssertions, ctxLogs, written, postRecorded>>
    /\ UNCHANGED unchangedByScriptCall

\* radius.expect(actual).toBe(expected) through the wrapped builder
Expect(actual, expected) ==
    /\ scriptRunning
    /\ ops' = ops + 1
    /\ ctxAssertions' = recordAssertion(ctxAssertions, toBe(actual, expected))
    /\ postRecorded' = IF pc = "post" THEN Append(postRecorded, toBe(actual, expected))
                       ELSE postRecorded
    /\ calls' = Append(calls, [op |-> "expect", actual |-> actual, expected |-> expected])
    /\ lastRead' = NoRead
    /\ UNCHANGED <<ctxVariables, ctxLogs, consoleLogs, written>>
    /\ UNCHANGED unchangedByScriptCall

\* runPre returns and execute handles the result (lines 98-112)
PreScriptReturn(how) ==
    LET preResult == executeScript(how, consoleLogs, ctxLogs, ctxVariables, ctxAssertions)
        next == afterPreScript(preResult)
    IN  /\ pc = "pre"
        /\ UNCHANGED resolverVars
        /\ UNCHANGED cliVars
        /\ UNCHANGED libraryVars
        /\ UNCHANGED <<answered, supplied>>
        /\ stages' = Append(stages, "PreScript")
        /\ pc' = next
        /\ IF next = "done"
           THEN /\ response' = createErrorResponse(<<"Pre-script error: ", preResult.error>>,
                                                  resolved.url)
                /\ outcome' = "returned"
                /\ sessionVariables' = sessionAfterPreScript(sessionAttached,
                                                             sessionVariables, preResult)
                /\ UNCHANGED <<lastMerged, preWritten>>
           ELSE /\ sessionVariables' = sessionAfterPreScript(sessionAttached,
                                                             sessionVariables, preResult)
                /\ lastMerged' = IF sessionAttached /\ preResult.success
                                 THEN merge(lastMerged, written) ELSE lastMerged
                /\ preWritten' = IF preResult.success THEN written ELSE preWritten
                /\ UNCHANGED <<response, outcome>>
        /\ written' = EmptyMap
        /\ preHow' = how
        /\ scriptResult' = preResult
        /\ UNCHANGED <<calls, hostVars>>
        /\ UNCHANGED <<fileIdx, userSources, sources, sessionAttached, request, resolved,
                       ctxVariables, ctxLogs, ctxAssertions, consoleLogs, ops, sent,
                       fromTransport, postRecorded, sessionAtEntry, postHow,
                       mergedAtEntry>>

\* client.execute(resolved) returns (line 115); runPost is entered when the
\* request has a post-script
Transport(answer) ==
    LET toSend == requestToSend(resolved, request, sources, sessionVariables)
        next == afterTransport(resolved)
    IN  /\ pc = "transport"
        /\ UNCHANGED resolverVars
        /\ UNCHANGED cliVars
        /\ UNCHANGED libraryVars
        /\ answered' = answer
        /\ UNCHANGED supplied
        /\ stages' = Append(stages, "Transport")
        /\ sent' = toSend
        /\ response' = clientExecute(toSend, answer)
        /\ fromTransport' = clientExecute(toSend, answer)
        /\ pc' = next
        /\ outcome' = IF next = "done" THEN "returned" ELSE outcome
        /\ consoleLogs' = IF next = "post" THEN <<>> ELSE consoleLogs
        /\ calls' = IF next = "post" THEN <<>> ELSE calls
        /\ UNCHANGED <<scriptResult, hostVars>>
        /\ UNCHANGED <<fileIdx, userSources, sources, sessionAttached, sessionVariables,
                       request, resolved, ctxVariables, ctxLogs, ctxAssertions, ops,
                       written, preWritten, postRecorded, sessionAtEntry,
                       preHow, postHow, lastMerged, mergedAtEntry>>

\* runPost returns and execute handles the result (lines 119-141)
PostScriptReturn(how) ==
    LET postResult == executeScript(how, consoleLogs, ctxLogs, ctxVariables, ctxAssertions)
    IN  /\ pc = "post"
        /\ UNCHANGED resolverVars
        /\ UNCHANGED cliVars
        /\ UNCHANGED libraryVars
        /\ UNCHANGED <<answered, supplied>>
        /\ stages' = Append(stages, "PostScript")
        /\ pc' = afterPostScript(postResult)
        /\ sessionVariables' = sessionAfterPostScript(sessionAttached, sessionVariables,
                                                      postResult)
        /\ lastMerged' = IF sessionAttached THEN merge(lastMerged, written) ELSE lastMerged
        /\ response' = attachScriptOutput(response, postResult)
        /\ outcome' = "returned"
        /\ written' = EmptyMap
        /\ postHow' = how
        /\ scriptResult' = postResult
        /\ UNCHANGED <<calls, hostVars>>
        /\ UNCHANGED <<fileIdx, userSources, sources, sessionAttached, request, resolved,
                       ctxVariables, ctxLogs, ctxAssertions, consoleLogs, ops, sent,
                       fromTransport, preWritten, postRecorded, sessionAtEntry,
                       preHow, mergedAtEntry>>

\* execute has returned or raised; the caller goes on to the next file
Finish ==
    /\ pc = "done"
    /\ UNCHANGED resolverVars
    /\ UNCHANGED cliVars
    /\ UNCHANGED libraryVars
    /\ UNCHANGED <<answered, supplied>>
    /\ pc' = "idle"
    /\ fileIdx' = fileIdx + 1
    /\ UNCHANGED <<userSources, sources, sessionAttached, sessionVariables, request,
                   resolved, ctxVariables, ctxLogs, ctxAssertions, consoleLogs, ops,
                   response, outcome, stages, sent, fromTransport, written,
                   preWritten, postRecorded, sessionAtEntry, preHow, postHow,
                   lastMerged, mergedAtEntry, calls, scriptResult>>
    /\ UNCHANGED hostVars

Next ==
    \/ SetSession
    \/ \E req \in Requests : Execute(req)
    \/ \E req \in SuppliedRequests, variables \in SuppliedVariables :
          ExecuteWithVariables(req, variables)
    \/ \E w \in ScriptWrites : SetVariable(w.name, w.value)
    \/ Log
    \/ ConsoleLog
    \/ \E actual \in ScriptValues : Expect(actual, StrVal("T1"))
    \/ \E how \in {"ok", "throw", "timeout"} : PreScriptReturn(how)
    \/ \E answer \in Answers : Transport(answer)
    \/ \E how \in {"ok", "throw", "timeout"} : PostScriptReturn(how)
    \/ Finish

Spec == Init /\ [][Next]_vars

\* ------------------------------------------------------------------------
\* A VariableResolver on its own: new VariableResolver(sources, options)
\* followed by resolve calls
\* ------------------------------------------------------------------------
Priorities == {100, 200, 300}
KeyA == Plain("a")

\* the text a mock source holds for a key names the source
TextOf(sourceName, key) == <<[k |-> "lit", n |-> [pre |-> sourceName, id |-> key.id]]>>

\* the i-th source passed to the constructor
SourceNames == <<"s1", "s2", "s3", "s4", "s5">>
MockSource(i, priority, definesA) ==
    [name |-> SourceNames[i], priority |-> priority,
     values |-> IF definesA THEN (KeyA :> TextOf(SourceNames[i], KeyA))
                ELSE [x \in {} |-> <<>>]]

SourceLists ==
    UNION {
        {[i \in 1..n |-> MockSource(i, prio[i], defs[i])] :
            prio \in [1..n -> Priorities], defs \in [1..n -> BOOLEAN]} :
        n \in 1..MaxSources}

\* a source whose values refer to one another: a chain of n values
\* c1 -> /{{c2}}, ..., cn -> /{{c(n+1)}} ending in a literal, the cycles
\* x -> {{y}}, y -> y:{{x}} and self -> {{self}}, and two values that
\* refer to a name no source has
LinkIds == <<"c1", "c2", "c3", "c4", "c5", "c6", "c7", "c8", "c9", "c10", "c11",
             "c12", "c13">>
Link(i) == Plain(LinkIds[i])
ChainValues(n) ==
    [name \in {Link(i) : i \in 1..(n + 1)} |->
        LET i == CHOOSE j \in 1..(n + 1) : Link(j) = name
        IN  IF i = n + 1 THEN <<Lit("end")>> ELSE <<Lit("/"), Ph(Link(i + 1))>>]
GraphSource(n) ==
    [name |-> "graph", priority |-> 150,
     values |-> ChainValues(n)
             @@ (Plain("x") :> <<Ph(Plain("y"))>>)
             @@ (Plain("y") :> <<Lit("y:"), Ph(Plain("x"))>>)
             @@ (Plain("self") :> <<Ph(Plain("self"))>>)
             @@ (Plain("n1") :> <<Ph(Plain("missing"))>>)
             @@ (Plain("n2") :> <<Ph(Plain("n1")), Lit("+"), Ph(Plain("missing"))>>)]

ChainLengths == 0..MaxChain \cup {DefaultMaxDepth, DefaultMaxDepth + 1}
MaxDepths == 0..(MaxChain - 1) \cup {DefaultMaxDepth}
GraphSourceLists == {<<GraphSource(n)>> : n \in ChainLengths}

\* a source holding values under names that start with $ or env., and a
\* value that refers to a built-in
NamedSource ==
    [name |-> "named", priority |-> 150,
     values |-> (Dollar("uuid") :> <<Lit("N-uuid")>>)
             @@ (Dollar("timestamp") :> <<Lit("N-timestamp")>>)
             @@ (Dollar("randomInt") :> <<Lit("N-randomInt")>>)
             @@ (Plain("rid") :> <<Ph(Dollar("uuid"))>>)
             @@ (KeyA :> <<Lit("N-a")>>)
             @@ (EnvName("a") :> <<Lit("N-env.a")>>)
             @@ (Plain("price") :> <<Lit("$$"), Lit("5")>>)
             @@ (Plain("amp") :> <<Lit("a"), Lit("$&"), Lit("b")>>)
             @@ (Plain("group") :> <<Lit("$1")>>)]
NamedSourceLists == {<<NamedSource>>, <<NamedSource, getVariableSource>>}

\* radius.setVariable("$uuid", requestId) merged into the Session
SessionWrites == {EmptyMap, (Dollar("uuid") :> StrVal("S-uuid"))}

ResolverTemplates ==
    {<<Ph(KeyA)>>,
     <<Ph(Dollar("uuid"))>>,
     <<Ph(Dollar("uuid")), Lit("-"), Ph(Dollar("uuid"))>>,
     <<Ph(Dollar("randomInt")), Ph(Dollar("timestamp")), Ph(Dollar("isodate"))>>,
     <<Ph(Plain("rid")), Ph(Dollar("UUID")), Ph(Plain("rid"))>>,
     <<Ph(EnvName("$uuid"))>>,
     <<Ph(EnvName("env.a"))>>,
     <<Ph(Plain("gone"))>>,
     <<Ph(EnvName("gone"))>>,
     <<Lit("x="), Ph(KeyA)>>,
     <<Ph(EnvName("a"))>>,
     <<Ph(Link(1))>>,
     <<Ph(Plain("x"))>>,
     <<Lit("k="), Ph(Plain("y"))>>,
     <<Ph(Plain("self"))>>,
     <<Ph(Plain("missing")), Ph(Plain("x"))>>,
     <<Ph(Plain("missing"))>>,
     <<Lit("m="), Ph(Plain("missing")), Lit("&"), Ph(Plain("missing"))>>,
     <<Ph(Plain("missing")), Ph(Plain("gone"))>>,
     <<Ph(EnvName("gone")), Ph(Dollar("nothing"))>>,
     <<Ph(Plain("n2"))>>,
     <<Ph(Plain("price"))>>,
     <<Lit("q="), Ph(Plain("amp"))>>,
     <<Ph(Plain("group")), Lit("/"), Ph(KeyA)>>}

runnerUnused ==
    <<pc, fileIdx, userSources, sources, sessionAttached, sessionVariables,
      request, resolved, ctxVariables, ctxLogs, ctxAssertions, consoleLogs,
      ops, response, outcome, stages, sent, fromTransport, written,
      preWritten, postRecorded, sessionAtEntry, preHow, postHow,
      lastMerged, mergedAtEntry, calls, scriptResult, processEnv,
      sandboxOptions, sandboxEnv, lastRead, loop, answered, supplied, cliVars, libraryVars>>

InitResolver ==
    /\ pc = "idle"
    /\ answered = NoAnswer
    /\ supplied = EmptyMap
    /\ CliIdle
    /\ LibraryIdle
    /\ fileIdx = 0
    /\ userSources = <<>>
    /\ sources = <<>>
    /\ sessionAttached = FALSE
    /\ request = NoRequest
    /\ resolved = NoRequest
    /\ ctxVariables = EmptyMap
    /\ ctxLogs = <<>>
    /\ ctxAssertions = <<>>
    /\ consoleLogs = <<>>
    /\ ops = 0
    /\ response = NoResponse
    /\ outcome = "none"
    /\ stages = <<>>
    /\ sent = NoRequest
    /\ fromTransport = NoResponse
    /\ written = EmptyMap
    /\ preWritten = EmptyMap
    /\ postRecorded = <<>>
    /\ sessionAtEntry = EmptyMap
    /\ preHow = "none"
    /\ postHow = "none"
    /\ lastMerged = EmptyMap
    /\ mergedAtEntry = EmptyMap
    /\ calls = <<>>
    /\ scriptResult = NoScriptResult
    /\ processEnv = ("HOME" :> StrVal("/root"))
    /\ sandboxOptions = RunnerSandboxOptions
    /\ sandboxEnv = sandboxEnvOf(sandboxOptions, processEnv)
    /\ lastRead = NoRead
    /\ loop = "none"
    /\ \/ rInput \in SourceLists /\ rMaxDepth = DefaultMaxDepth
          /\ sessionVariables = EmptyMap
       \/ rInput \in GraphSourceLists /\ rMaxDepth \in MaxDepths
          /\ sessionVariables = EmptyMap
       \/ rInput \in NamedSourceLists /\ rMaxDepth = DefaultMaxDepth
          /\ sessionVariables \in SessionWrites
    /\ rSources = sortSources(rInput)
    /\ rStrict \in BOOLEAN
    /\ rTemplate = <<>>
    /\ rResult = NoResult

\* VariableResolver.resolve(template)
Resolve(template) ==
    /\ rTemplate' = template
    /\ rResult' = resolve(rSources, sessionVariables, rStrict, rMaxDepth, template)
    /\ UNCHANGED <<rInput, rSources, rStrict, rMaxDepth>>
    /\ UNCHANGED runnerUnused

NextResolver == \E template \in ResolverTemplates : Resolve(template)

SpecResolver == InitResolver /\ [][NextResolver]_vars

\* ------------------------------------------------------------------------
\* A ScriptSandbox on its own: new ScriptSandbox(options) followed by
\* runPre, runPost and resetContext calls
\* ------------------------------------------------------------------------
SandboxOptions == {RunnerSandboxOptions, [env |-> SuppliedEnv]}
EnvNames == {"HOME", "API"}

sandboxUnused ==
    <<fileIdx, userSources, sources, sessionAttached, sessionVariables, request,
      resolved, response, outcome, stages, sent, fromTransport, preWritten,
      postRecorded, sessionAtEntry, lastMerged, mergedAtEntry>>

InitSandbox ==
    /\ pc = "idle"
    /\ answered = NoAnswer
    /\ supplied = EmptyMap
    /\ CliIdle
    /\ LibraryIdle
    /\ fileIdx = 0
    /\ userSources = <<>>
    /\ sources = <<>>
    /\ sessionAttached = FALSE
    /\ sessionVariables = EmptyMap
    /\ request = NoRequest
    /\ resolved = NoRequest
    /\ ctxVariables = EmptyMap
    /\ ctxLogs = <<>>
    /\ ctxAssertions = <<>>
    /\ consoleLogs = <<>>
    /\ ops = 0
    /\ response = NoResponse
    /\ outcome = "none"
    /\ stages = <<>>
    /\ sent = NoRequest
    /\ fromTransport = NoResponse
    /\ written = EmptyMap
    /\ preWritten = EmptyMap
    /\ postRecorded = <<>>
    /\ sessionAtEntry = EmptyMap
    /\ preHow = "none"
    /\ postHow = "none"
    /\ lastMerged = EmptyMap
    /\ mergedAtEntry = EmptyMap
    /\ calls = <<>>
    /\ scriptResult = NoScriptResult
    /\ processEnv \in HostEnvironments
    /\ sandboxOptions \in SandboxOptions
    /\ sandboxEnv = sandboxEnvOf(sandboxOptions, processEnv)
    /\ lastRead = NoRead
    /\ loop = "none"
    /\ ResolverIdle

\* runPre / runPost is called: executeScript builds consoleLogs and the
\* scope and starts the script
RunScript(kind) ==
    /\ pc = "idle"
    /\ pc' = kind
    /\ consoleLogs' = <<>>
    /\ calls' = <<>>
    /\ written' = EmptyMap
    /\ preHow' = "none"
    /\ postHow' = "none"
    /\ scriptResult' = NoScriptResult
    /\ lastRead' = NoRead
    /\ loop' = "none"
    /\ UNCHANGED <<ctxVariables, ctxLogs, ctxAssertions, ops, processEnv,
                   sandboxOptions, sandboxEnv>>
    /\ UNCHANGED sandboxUnused
    /\ UNCHANGED resolverVars
    /\ UNCHANGED cliVars
    /\ UNCHANGED libraryVars
    /\ UNCHANGED <<answered, supplied>>

unchangedByRead ==
    <<pc, ctxVariables, ctxLogs, ctxAssertions, consoleLogs, written, preHow,
      postHow, scriptResult, processEnv, sandboxOptions, sandboxEnv, loop>>

\* radius.getEnv(name), called by the running script
GetEnv(name) ==
    /\ scriptRunning
    /\ ops' = ops + 1
    /\ lastRead' = [kind |-> "getEnv", name |-> name, value |-> getEnv(sandboxEnv, name)]
    /\ calls' = Append(calls, [op |-> "getEnv", name |-> name])
    /\ UNCHANGED unchangedByRead
    /\ UNCHANGED sandboxUnused
    /\ UNCHANGED resolverVars
    /\ UNCHANGED cliVars
    /\ UNCHANGED libraryVars
    /\ UNCHANGED <<answered, supplied>>

\* the script evaluates the identifier `name` in its global scope; the
\* scope is the same at every point of the script, the read is taken at
\* its start
ReadGlobal(name) ==
    /\ pc \in {"runPre", "runPost"}
    /\ calls = <<>>
    /\ lastRead' = [kind |-> "global", name |-> name, value |-> sandboxScope[name]]
    /\ UNCHANGED <<ops, calls>>
    /\ UNCHANGED unchangedByRead
    /\ UNCHANGED sandboxUnused
    /\ UNCHANGED resolverVars
    /\ UNCHANGED cliVars
    /\ UNCHANGED libraryVars
    /\ UNCHANGED <<answered, supplied>>

\* the script reads a property of the value it just obtained
\* (process.env, JSON.parse); on undefined the engine raises a TypeError
\* instead, which a script that does not catch it stops with
AccessProperty ==
    /\ pc \in {"runPre", "runPost"}
    /\ lastRead.kind = "global"
    /\ lastRead.value # Undefined
    /\ lastRead' = [lastRead EXCEPT !.kind = "property"]
    /\ UNCHANGED <<ops, calls>>
    /\ UNCHANGED unchangedByRead
    /\ UNCHANGED sandboxUnused
    /\ UNCHANGED resolverVars
    /\ UNCHANGED cliVars
    /\ UNCHANGED libraryVars
    /\ UNCHANGED <<answered, supplied>>

\* the script enters `while (true) {}`, directly or inside a callback it
\* hands to a promise (Promise.resolve().then(() => { while (true) {} }))
EnterLoop(where) ==
    /\ pc \in {"runPre", "runPost"}
    /\ loop = "none"
    /\ loop' = where
    /\ UNCHANGED <<pc, ctxVariables, ctxLogs, ctxAssertions, consoleLogs, ops, written,
                   preHow, postHow, calls, scriptResult, processEnv, sandboxOptions,
                   sandboxEnv, lastRead>>
    /\ UNCHANGED sandboxUnused
    /\ UNCHANGED resolverVars
    /\ UNCHANGED cliVars
    /\ UNCHANGED libraryVars
    /\ UNCHANGED <<answered, supplied>>

\* vmScript.runInContext returns or throws and executeScript builds its
\* result.  A script in a synchronous loop leaves runInContext through the
\* timeout only.  The timeout covers runInContext alone: a callback the
\* script queued on a promise runs when the host's stack unwinds, before
\* the caller awaiting runPre / runPost resumes, and a loop in it never ends
ScriptReturn(how) ==
    LET result == executeScript(how, consoleLogs, ctxLogs, ctxVariables, ctxAssertions)
    IN  /\ pc \in {"runPre", "runPost"}
        /\ loop = "sync" => how = "timeout"
        /\ preHow' = IF pc = "runPre" THEN how ELSE preHow
        /\ postHow' = IF pc = "runPost" THEN how ELSE postHow
        /\ IF loop = "microtask"
           THEN /\ pc' = "callback"
                /\ UNCHANGED scriptResult
           ELSE /\ pc' = "idle"
                /\ scriptResult' = result
        /\ lastRead' = NoRead
        /\ UNCHANGED <<ctxVariables, ctxLogs, ctxAssertions, consoleLogs, ops, written,
                       calls, processEnv, sandboxOptions, sandboxEnv, loop>>
        /\ UNCHANGED sandboxUnused
        /\ UNCHANGED resolverVars
        /\ UNCHANGED cliVars
        /\ UNCHANGED libraryVars
        /\ UNCHANGED <<answered, supplied>>

\* the host runs the callback the script queued: one more turn of its loop
CallbackLoops ==
    /\ pc = "callback"
    /\ loop \in {"microtask", "spinning"}
    /\ loop' = IF loop = "microtask" THEN "spinning" ELSE "microtask"
    /\ UNCHANGED <<pc, ctxVariables, ctxLogs, ctxAssertions, consoleLogs, ops, written,
                   preHow, postHow, calls, scriptResult, processEnv, sandboxOptions,
                   sandboxEnv, lastRead>>
    /\ UNCHANGED sandboxUnused
    /\ UNCHANGED resolverVars
    /\ UNCHANGED cliVars
    /\ UNCHANGED libraryVars
    /\ UNCHANGED <<answered, supplied>>

\* ScriptSandbox.resetContext, called between runs
ResetContext ==
    /\ pc = "idle"
    /\ ctxVariables' = resetContext(ctxVariables)
    /\ ctxLogs' = <<>>
    /\ ctxAssertions' = <<>>
    /\ ops' = 0
    /\ UNCHANGED <<pc, consoleLogs, written, preHow, postHow, calls, scriptResult,
                   processEnv, sandboxOptions, sandboxEnv, lastRead, loop>>
    /\ UNCHANGED sandboxUnused
    /\ UNCHANGED resolverVars
    /\ UNCHANGED cliVars
    /\ UNCHANGED libraryVars
    /\ UNCHANGED <<answered, supplied>>

NextSandbox ==
    \/ \E kind \in {"runPre", "runPost"} : RunScript(kind)
    \/ \E w \in ScriptWrites : SetVariable(w.name, w.value)
    \/ Log
    \/ ConsoleLog
    \/ \E actual \in ScriptValues : Expect(actual, StrVal("T1"))
    \/ \E name \in EnvNames : GetEnv(name)
    \/ \E name \in BlockedNames \cup ExposedNames : ReadGlobal(name)
    \/ AccessProperty
    \/ \E where \in {"sync", "microtask"} : EnterLoop(where)
    \/ \E how \in Stops : ScriptReturn(how)
    \/ CallbackLoops
    \/ ResetContext

SpecSandbox == InitSandbox /\ [][NextSandbox]_vars

\* the watchdog of runInContext fires when the timeout has elapsed, so the
\* synchronous part of a script always comes to an end; a callback that
\* loops keeps the host busy
SpecSandboxFair ==
    /\ SpecSandbox
    /\ WF_vars(\E how \in Stops : ScriptReturn(how))
    /\ WF_vars(CallbackLoops)

\* ------------------------------------------------------------------------
\* Properties
\* ------------------------------------------------------------------------
executeReturnedOrRunning == stages # <<>> /\ outcome # "raised"
transportDone == \E i \in 1..Len(stages) : stages[i] = "Transport"
postScriptDone == \E i \in 1..Len(stages) : stages[i] = "PostScript"

\* the placeholders of the request body are plain names whose values are
\* single texts, so piece i of the body resolves to piece i of the result
bodyPlaceholders == {i \in 1..Len(request.body) : request.body[i].k = "ph"}

\* C1: in a run sharing one Session, the Resolve step of a later file
\* replaces {{n}} by the text of the latest value a script wrote to n and
\* that was merged into the Session (by a post-script, or by a pre-script
\* that succeeded).
C1_ChainedWriteResolved ==
    (sessionAttached /\ executeReturnedOrRunning) =>
        \A i \in bodyPlaceholders :
            request.body[i].n \in DOMAIN mergedAtEntry =>
                resolved.body[i] = Lit(mergedAtEntry[request.body[i].n].v)

C1_Witness ==
    /\ sessionAttached
    /\ executeReturnedOrRunning
    /\ fileIdx >= 1
    /\ pc = "transport"
    /\ \E i \in bodyPlaceholders :
        /\ request.body[i].n = Plain("token")
        /\ Plain("token") \in DOMAIN mergedAtEntry
        /\ mergedAtEntry[Plain("token")] = NumVal("42")
        /\ resolved.body[i] = Lit("42")

\* C2: with pairwise distinct priorities, a name resolves to the value of
\* the highest-priority source that defines it, whatever the order the
\* sources were passed in; sources that lack the name are skipped.
distinctPriorities ==
    \A i, j \in 1..Len(rInput) : i # j => rInput[i].priority # rInput[j].priority
definingA == {i \in 1..Len(rInput) : KeyA \in DOMAIN rInput[i].values}
highestDefiningA ==
    CHOOSE i \in definingA : \A j \in definingA : rInput[j].priority <= rInput[i].priority

C2_HighestPriorityWins ==
    (rTemplate = <<Ph(KeyA)>> /\ distinctPriorities /\ definingA # {}) =>
        /\ rResult.status = "ok"
        /\ rResult.value = rInput[highestDefiningA].values[KeyA]

C2_Witness ==
    /\ rTemplate = <<Ph(KeyA)>>
    /\ distinctPriorities
    /\ Len(rInput) = 3
    /\ definingA = {1, 2}
    /\ rInput[3].priority > rInput[2].priority
    /\ rInput[2].priority > rInput[1].priority
    /\ rResult.value = TextOf("s2", KeyA)

\* C3: with the Session attached and the sources of the CLI (Session 500,
\* profile 400, .env 200, system 100), a name the Session holds resolves
\* to the Session's value at every Resolve step, also when other sources
\* define it.
definedOutsideSession(name) ==
    \E i \in 1..Len(sources) :
        sources[i].name # "Session" /\ name \in DOMAIN sources[i].values

sessionValueUsed(template, result) ==
    \A i \in 1..Len(template) :
        (/\ template[i].k = "ph"
         /\ template[i].n \in DOMAIN sessionAtEntry
         /\ definedOutsideSession(template[i].n)) =>
            result[i] = ToStr(sessionAtEntry[template[i].n])[1]

C3_SessionHighestPriority ==
    (sessionAttached /\ pc # "idle" /\ executeReturnedOrRunning) =>
        /\ [i \in 1..Len(sources) |-> sources[i].priority] = <<500, 400, 200, 100>>
        /\ sources[1].name = "Session"
        /\ sessionValueUsed(request.headers, resolved.headers)
        /\ sessionValueUsed(request.body, resolved.body)

C3_Witness ==
    /\ sessionAttached
    /\ pc = "transport"
    /\ request.headers = <<Lit("Bearer "), Ph(Plain("token"))>>
    /\ Plain("token") \in DOMAIN sessionAtEntry
    /\ definedOutsideSession(Plain("token"))
    /\ resolved.headers = <<Lit("Bearer "), Lit("T1")>>

\* C4: within one execute the stages complete in the order Resolve,
\* PreScript, Transport, PostScript; the transport is invoked at most
\* once and the post-script runs only after the transport has returned.
stageRank(stage) ==
    CASE stage = "Resolve" -> 1
      [] stage = "PreScript" -> 2
      [] stage = "Transport" -> 3
      [] stage = "PostScript" -> 4

C4_StagesInOrder ==
    /\ \A i, j \in 1..Len(stages) : i < j => stageRank(stages[i]) < stageRank(stages[j])
    /\ stages # <<>> => stages[1] = "Resolve"
    /\ pc = "pre" => stages = <<"Resolve">>
    /\ pc = "transport" => ~transportDone /\ ~postScriptDone
    /\ pc = "post" => stages[Len(stages)] = "Transport"
    /\ postScriptDone => transportDone

C4_Witness ==
    /\ pc = "done"
    /\ stages = <<"Resolve", "PreScript", "Transport", "PostScript">>

\* C5: when the pre-script fails (throws or times out), execute invokes
\* neither the transport nor the post-script and returns a response with
\* status 0, status text "Error" and the failure message as body.
preFailed == preHow \in {"throw", "timeout"}

C6_ResponseKeptAfterPostScript ==
    transportDone =>
        /\ outcome # "raised"
        /\ response.status = fromTransport.status
        /\ response.statusText = fromTransport.statusText
        /\ response.body = fromTransport.body
        /\ pc \in {"done", "idle"} => outcome = "returned"

C6_Witness ==
    /\ pc = "done"
    /\ postHow = "throw"
    /\ outcome = "returned"
    /\ response.status = 200
    /\ fromTransport.status = 200

\* C7: the request handed to the transport is the one resolved before the
\* pre-script ran: setVariable calls of the pre-script change neither its
\* URL, its headers nor its body, even for a name the request uses.
resolvedAtEntry ==
    resolveObject(sources, sessionAtEntry, FALSE, DefaultMaxDepth, request).value

C8_PreWritesMergedBeforeTransport ==
    (sessionAttached /\ pc = "transport" /\ preHow = "ok") =>
        \A name \in DOMAIN preWritten :
            /\ name \in DOMAIN sessionVariables
            /\ sessionVariables[name] = preWritten[name]

C8_Witness ==
    /\ sessionAttached
    /\ pc = "transport"
    /\ preHow = "ok"
    /\ Plain("token") \in DOMAIN sessionAtEntry
    /\ Plain("token") \in DOMAIN preWritten
    /\ sessionAtEntry[Plain("token")] # preWritten[Plain("token")]

\* C9: at the start of every execute the sandbox variable map holds
\* exactly the current Session contents (nothing without a Session), so a
\* variable of an earlier request is readable only if it is in the
\* Session; a variable the pre-script wrote is readable by the
\* post-script of the same request.
atEntry == pc \in {"pre", "transport"} /\ stages = <<"Resolve">> /\ ops = 0

C10_AssertionsFromPostScriptOnly ==
    (pc = "done" /\ outcome = "returned") => response.assertions = postRecorded

\* ------------------------------------------------------------------------
\* Properties of the sandbox
\* ------------------------------------------------------------------------
scriptActive == pc \in {"runPre", "runPost"}
lastHow == IF preHow # "none" THEN preHow ELSE postHow
returnedTo == pc = "idle" /\ lastHow # "none"

isExpect(c) == c.op = "expect"
isOutput(c) == c.op \in {"log", "console"}
isWrite(c) == c.op = "setVariable"

\* the texts the script logged through radius.log and console, as called
outputOf(cs) ==
    LET out == SelectSeq(cs, isOutput) IN [i \in 1..Len(out) |-> out[i].text]

RECURSIVE IsSubsequence(_, _)
IsSubsequence(a, b) ==
    IF a = <<>> THEN TRUE
    ELSE IF b = <<>> THEN FALSE
    ELSE IF Head(a) = Head(b) THEN IsSubsequence(Tail(a), Tail(b))
    ELSE IsSubsequence(a, Tail(b))

\* C11: every terminal check on an expect(...) builder appends exactly one
\* outcome, passed or failed, at the end of the assertion list and the
\* script goes on; no other step of an execution changes the list; a
\* script that runs to its end returns success = true with the list,
\* failed outcomes included.
C11_ExpectAppendsOneOutcome ==
    [][/\ (Len(calls') = Len(calls) + 1 /\ isExpect(calls'[Len(calls')])) =>
            /\ Len(ctxAssertions') = Len(ctxAssertions) + 1
            /\ SubSeq(ctxAssertions', 1, Len(ctxAssertions)) = ctxAssertions
            /\ LET c == calls'[Len(calls')]
                   recorded == ctxAssertions'[Len(ctxAssertions')]
               IN  /\ recorded.passed = (c.actual = c.expected)
                   /\ recorded.actual = c.actual
                   /\ recorded.expected = c.expected
            /\ pc' = pc
       /\ (scriptActive /\ ~(Len(calls') = Len(calls) + 1 /\ isExpect(calls'[Len(calls')]))) =>
            ctxAssertions' = ctxAssertions
       /\ (scriptActive /\ pc' = "idle" /\ lastHow' = "ok") =>
            /\ scriptResult'.success
            /\ scriptResult'.assertions = ctxAssertions
      ]_vars

C11_Witness ==
    /\ returnedTo
    /\ lastHow = "ok"
    /\ scriptResult.success
    /\ Len(scriptResult.assertions) = 2
    /\ ~scriptResult.assertions[1].passed
    /\ scriptResult.assertions[2].passed
    /\ Len(calls) = 2

\* C12: the log list of a script result holds the radius.log and console
\* calls of that execution in the order the script made them.
C12_LogsInCallOrder ==
    returnedTo => IsSubsequence(outputOf(calls), scriptResult.logs)

\* C13: when a script throws, runPre / runPost returns success = false
\* with the message of the error thrown, and the logs, variables and
\* assertions it returns hold everything the script recorded before.
C13_ThrowKeepsMessageAndPartialResults ==
    (returnedTo /\ lastHow \in {"throw", "raise"}) =>
        /\ ~scriptResult.success
        /\ scriptResult.error = thrownBy(lastHow).message
        /\ \A i \in 1..Len(calls) :
            /\ isOutput(calls[i]) =>
                \E j \in 1..Len(scriptResult.logs) : scriptResult.logs[j] = calls[i].text
            /\ isWrite(calls[i]) => calls[i].name \in DOMAIN scriptResult.variables
        /\ LET made == SelectSeq(calls, isExpect)
               kept == scriptResult.assertions
           IN  /\ Len(kept) >= Len(made)
               /\ \A i \in 1..Len(made) :
                    kept[Len(kept) - Len(made) + i].actual = made[i].actual

\* C14: every script execution comes to an end: runPre / runPost returns,
\* and for a script caught in an infinite loop it returns success = false
\* with the timeout's message.
C14_EveryScriptExecutionEnds ==
    scriptActive ~>
        (/\ pc = "idle"
         /\ loop = "sync" => (~scriptResult.success /\ scriptResult.error = TimeoutMessage))

\* C15: in every script each blocked name evaluates to undefined, and no
\* property of one is ever read successfully.
C15_BlockedNamesUndefined ==
    (lastRead.kind \in {"global", "property"} /\ lastRead.name \in BlockedNames) =>
        /\ lastRead.value = Undefined
        /\ lastRead.kind = "global"

C15_Witness ==
    /\ pc = "runPost"
    /\ lastRead = [kind |-> "global", name |-> "process", value |-> Undefined]

\* C16: radius.getEnv gives what the environment map supplied to the
\* sandbox holds for the name, and nothing when no map was supplied,
\* whatever the environment of the host process is.
C16_GetEnvReadsSuppliedMapOnly ==
    lastRead.kind = "getEnv" =>
        lastRead.value = (IF sandboxOptions.env = NoEnv THEN Undefined
                          ELSE getEnv(sandboxOptions.env, lastRead.name))

\* ------------------------------------------------------------------------
\* A SessionManager on its own: set, clear, saveToFile and loadFromFile
\* ------------------------------------------------------------------------
SessionKeys == {Plain("token"), Plain("n")}
SessionValues ==
    {StrVal("T1"), NumVal("42"), NumVal("NaN"), BoolVal("true"), NullVal}

sessionUnused ==
    <<pc, fileIdx, userSources, sources, sessionAttached, request, resolved,
      ctxVariables, ctxLogs, ctxAssertions, consoleLogs, ops, response, outcome,
      sent, fromTransport, written, preWritten, postRecorded, sessionAtEntry,
      preHow, postHow, lastMerged, mergedAtEntry, calls, scriptResult, hostVars,
      resolverVars, answered, supplied, runVars, libraryVars>>

\* SessionManager.set(key, value)
Set(key, value) ==
    /\ sessionVariables' = MapSet(sessionVariables, key, value)
    /\ stages' = <<"set">>
    /\ UNCHANGED <<file, saved>>
    /\ UNCHANGED sessionUnused

\* SessionManager.clear()
Clear ==
    /\ sessionVariables' = EmptyMap
    /\ stages' = <<"clear">>
    /\ UNCHANGED <<file, saved>>
    /\ UNCHANGED sessionUnused

\* SessionManager.saveToFile(filePath)
SaveToFile ==
    /\ file' = [written |-> TRUE, failed |-> FALSE, data |-> saveToFile(sessionVariables)]
    /\ saved' = getAll(sessionVariables)
    /\ stages' = <<"saveToFile">>
    /\ UNCHANGED sessionVariables
    /\ UNCHANGED sessionUnused

\* SessionManager.loadFromFile(filePath), the file being one saveToFile wrote
LoadFromFile ==
    /\ file.written
    /\ sessionVariables' = loadFromFile(sessionVariables, file.data)
    /\ stages' = <<"loadFromFile">>
    /\ UNCHANGED <<file, saved>>
    /\ UNCHANGED sessionUnused

NextSession ==
    \/ \E key \in SessionKeys, value \in SessionValues : Set(key, value)
    \/ Clear
    \/ SaveToFile
    \/ LoadFromFile

SpecSession == Init /\ [][NextSession]_vars

\* ------------------------------------------------------------------------
\* The run command: radius run <path> [--save-vars <file>]
\* ------------------------------------------------------------------------
\* file names, ascending in the order Array.prototype.sort() gives strings
SortedNames == <<"a.rd", "b.rd", "c.rd", "d.rd", "e.rd", "notes.txt", "sub.rd">>
nameRank(name) == CHOOSE i \in 1..Len(SortedNames) : SortedNames[i] = name

\* entry.name.endsWith('.rd')
endsWithRd(name) == name # "notes.txt"

\* fs.readdir(dirPath, {withFileTypes: true}) of a directory holding n
\* request files, a text file and a sub-directory, in the order the file
\* system lists them
Directory(n) ==
    <<[name |-> "sub.rd", isFile |-> FALSE], [name |-> "notes.txt", isFile |-> TRUE]>>
    \o [i \in 1..n |-> [name |-> SortedNames[n + 1 - i], isFile |-> TRUE]]

Targets ==
    {[kind |-> "missing", entries |-> <<>>],
     [kind |-> "file", entries |-> <<[name |-> "a.rd", isFile |-> TRUE]>>]}
    \cup {[kind |-> "dir", entries |-> Directory(n)] : n \in 0..MaxFiles}

\* findRdFiles without the sort: the files in readdir order
RECURSIVE rdFilesOf(_)
rdFilesOf(entries) ==
    IF entries = <<>> THEN <<>>
    ELSE IF Head(entries).isFile /\ endsWithRd(Head(entries).name)
         THEN <<Head(entries).name>> \o rdFilesOf(Tail(entries))
         ELSE rdFilesOf(Tail(entries))
findRdFilesUnsorted(entries) == rdFilesOf(entries)

\* rdFiles.sort()
RECURSIVE sortNames(_)
InsertByName(sorted, name) ==
    LET n == Cardinality({i \in 1..Len(sorted) : nameRank(sorted[i]) <= nameRank(name)})
    IN  SubSeq(sorted, 1, n) \o <<name>> \o SubSeq(sorted, n + 1, Len(sorted))
sortNames(names) ==
    IF names = <<>> THEN <<>>
    ELSE InsertByName(sortNames(SubSeq(names, 1, Len(names) - 1)), names[Len(names)])

\* findRdFiles(dirPath)
findRdFiles(entries) == sortNames(rdFilesOf(entries))

\* the verdict runFile and runDirectory reach on one file: raised is the
\* catch block, otherwise httpSuccess and the outcomes of _assertions
filePassed(raised, resp) ==
    /\ ~raised
    /\ resp.status >= 200 /\ resp.status < 400
    /\ \A i \in 1..Len(resp.assertions) : resp.assertions[i].passed

\* runDirectory that stops at the first file that did not pass
loopEndsAtFirstFailure(kind, index, count, passed) == ~passed \/ index = count

\* the loop over the files is over: runFile runs one file, runDirectory
\* every file whatever the verdicts
loopEnds(kind, index, count, passed) == index = count

\* the requests of the files and what the server does with them
CliRequests ==
    {[url |-> <<Ph(Plain("api")), Lit("/u/"), Ph(Plain("id"))>>,
      headers |-> <<Lit("Bearer "), Ph(Plain("token"))>>,
      body |-> <<Lit("t="), Ph(Plain("token"))>>, pre |-> TRUE, post |-> TRUE],
     [url |-> <<Ph(Plain("loop"))>>, headers |-> <<>>, body |-> <<>>,
      pre |-> FALSE, post |-> FALSE]}
CliAnswers == Answers \cup {[error |-> "none", statusCode |-> 404, body |-> <<"{}">>]}

\* radius run <path> is started; no RequestRunner exists yet
InitCli ==
    /\ pc = "idle"
    /\ answered = NoAnswer
    /\ supplied = EmptyMap
    /\ cliPc = "start"
    /\ target \in Targets
    /\ files = <<>>
    /\ results = <<>>
    /\ exitCode = -1
    /\ saveVars \in BOOLEAN
    /\ file = NoFile
    /\ saved = EmptyMap
    /\ LibraryIdle
    /\ fileIdx = 0
    /\ userSources = <<EnvironmentVariableSource>>
    /\ sources = sortSources(buildVariableSources(userSources))
    /\ sessionAttached = FALSE
    /\ sessionVariables = EmptyMap
    /\ request = NoRequest
    /\ resolved = NoRequest
    /\ ctxVariables = EmptyMap
    /\ ctxLogs = <<>>
    /\ ctxAssertions = <<>>
    /\ consoleLogs = <<>>
    /\ ops = 0
    /\ response = NoResponse
    /\ outcome = "none"
    /\ stages = <<>>
    /\ sent = NoRequest
    /\ fromTransport = NoResponse
    /\ written = EmptyMap
    /\ preWritten = EmptyMap
    /\ postRecorded = <<>>
    /\ sessionAtEntry = EmptyMap
    /\ preHow = "none"
    /\ postHow = "none"
    /\ lastMerged = EmptyMap
    /\ mergedAtEntry = EmptyMap
    /\ calls = <<>>
    /\ scriptResult = NoScriptResult
    /\ processEnv = ("HOME" :> StrVal("/root"))
    /\ sandboxOptions = RunnerSandboxOptions
    /\ sandboxEnv = sandboxEnvOf(sandboxOptions, processEnv)
    /\ lastRead = NoRead
    /\ loop = "none"
    /\ ResolverIdle

cliUnchangedByCommand ==
    <<pc, userSources, sessionVariables, request, resolved, ctxVariables, ctxLogs,
      ctxAssertions, consoleLogs, ops, response, outcome, stages, sent,
      fromTransport, written, preWritten, postRecorded, sessionAtEntry, preHow,
      postHow, lastMerged, mergedAtEntry, calls, scriptResult, hostVars,
      resolverVars, answered, supplied, target, saveVars, libraryVars>>

\* runCommand up to the first runner.run: fs.stat of the path, findRdFiles
\* for a directory, createRunner (new RequestRunner and setSession)
RunCommand ==
    LET found == IF target.kind = "dir" THEN findRdFiles(target.entries)
                 ELSE IF target.kind = "file" THEN <<target.entries[1].name>>
                 ELSE <<>>
    IN  /\ cliPc = "start"
        /\ files' = found
        /\ IF found = <<>>
           THEN /\ cliPc' = "exited"
                /\ exitCode' = 1
                /\ UNCHANGED <<sessionAttached, sources>>
           ELSE /\ cliPc' = "loop"
                /\ exitCode' = exitCode
                /\ sessionAttached' = TRUE
                /\ sources' = sortSources(<<getVariableSource>>
                                          \o buildVariableSources(userSources))
        /\ UNCHANGED <<fileIdx, results, file, saved>>
        /\ UNCHANGED cliUnchangedByCommand

\* runner.run(file) of the next file: the runner parses it and executes
\* the request it holds
RunFile(req) ==
    /\ cliPc = "loop"
    /\ fileIdx < Len(files)
    /\ Execute(req)

\* what happened to the file whose run has ended: execute raised, the
\* response has a status outside 200..399 (status 0 after a pre-script or
\* network failure), or it reports an assertion that did not pass
fileFailed ==
    \/ outcome = "raised"
    \/ response.status \notin 200..399
    \/ \E i \in 1..Len(response.assertions) : ~response.assertions[i].passed

\* runner.run has returned or raised: runFile's verdict and exit, or
\* runDirectory's results.push, next file and exit after the last file.
\* Beside file and passed a result records whether the file failed.
FileDone ==
    LET passed == filePassed(outcome = "raised", response)
        result == [file |-> files[fileIdx + 1], passed |-> passed, failed |-> fileFailed]
        all == Append(results, result)
        hasFailures == \E i \in 1..Len(all) : ~all[i].passed
    IN  /\ cliPc = "loop"
        /\ pc = "done"
        /\ pc' = "idle"
        /\ fileIdx' = fileIdx + 1
        /\ results' = all
        /\ IF ~loopEnds(target.kind, fileIdx + 1, Len(files), passed)
           THEN cliPc' = "loop" /\ exitCode' = exitCode
           ELSE IF hasFailures
           THEN cliPc' = "exited" /\ exitCode' = 1
           ELSE cliPc' = "save" /\ exitCode' = exitCode
        /\ UNCHANGED <<target, files, saveVars, file, saved, answered, supplied>>
        /\ UNCHANGED <<userSources, sources, sessionAttached, sessionVariables, request,
                       resolved, ctxVariables, ctxLogs, ctxAssertions, consoleLogs, ops,
                       response, outcome, stages, sent, fromTransport, written,
                       preWritten, postRecorded, sessionAtEntry, preHow, postHow,
                       lastMerged, mergedAtEntry, calls, scriptResult>>
        /\ UNCHANGED <<hostVars, resolverVars, libraryVars>>

\* the end of runCommand: sessionManager.saveToFile when --save-vars is
\* given (fs.writeFile may fail, which runCommand's catch turns into exit
\* code 1), then the process ends
SaveVars(writable) ==
    /\ cliPc = "save"
    /\ cliPc' = "exited"
    /\ IF ~saveVars
       THEN exitCode' = 0 /\ UNCHANGED <<file, saved>>
       ELSE IF writable
       THEN /\ exitCode' = 0
            /\ file' = [written |-> TRUE, failed |-> FALSE,
                         data |-> saveToFile(sessionVariables)]
            /\ saved' = getAll(sessionVariables)
       ELSE /\ exitCode' = 1
            /\ file' = [written |-> FALSE, failed |-> TRUE, data |-> EmptyMap]
            /\ UNCHANGED saved
    /\ UNCHANGED <<fileIdx, files, results, sessionAttached, sources>>
    /\ UNCHANGED cliUnchangedByCommand

NextCli ==
    \/ RunCommand
    \/ \E req \in CliRequests : RunFile(req)
    \/ SetVariable(Plain("token"), StrVal("T1"))
    \/ \E actual \in ScriptValues : Expect(actual, StrVal("T1"))
    \/ \E how \in {"ok", "throw"} : PreScriptReturn(how)
    \/ \E answer \in CliAnswers : Transport(answer)
    \/ \E how \in {"ok", "throw"} : PostScriptReturn(how)
    \/ FileDone
    \/ \E writable \in BOOLEAN : SaveVars(writable)

SpecCli == InitCli /\ [][NextCli]_vars

\* ------------------------------------------------------------------------
\* Properties of the resolver
\* ------------------------------------------------------------------------
resolveCalled == rResult.status # "none"
usesGraph == rInput \in GraphSourceLists
graphValues == rInput[1].values
Range(seq) == {seq[i] : i \in 1..Len(seq)}
placeholdersOf(str) == {str[i].n : i \in {j \in 1..Len(str) : str[j].k = "ph"}}

\* the names a value refers to, and the names reached from a set of names
\* in at most k steps
refsOf(name) ==
    IF name \in DOMAIN graphValues THEN placeholdersOf(graphValues[name]) ELSE {}
RECURSIVE reachFrom(_, _)
reachFrom(names, k) ==
    IF k = 0 THEN names
    ELSE reachFrom(names \cup UNION {refsOf(n) : n \in names}, k - 1)
onCycle(name) == name \in reachFrom(refsOf(name), Cardinality(DOMAIN graphValues))

\* the values c1 .. cn of the chain that contain a placeholder
chainLength == Cardinality({i \in 1..Len(LinkIds) : Link(i) \in DOMAIN graphValues}) - 1

\* no source has the name (the env. prefix dropped) and it is no built-in
absentEverywhere(name) ==
    /\ \A i \in 1..Len(rInput) :
         SourceGet(rInput[i], IF name.pre = "env." THEN slice(name.id) ELSE name,
                   sessionVariables) = NoString
    /\ ~(name.pre = "$" /\ toLowerCase(name.id) \in BuiltinNames)
absentNames == {n \in placeholdersOf(rTemplate) : absentEverywhere(n)}

\* C17: resolving a template with a placeholder that lies on a reference
\* cycle fails with the depth-exceeded failure, in strict and in lenient
\* mode and for every maximum depth; it returns no value and no list of
\* unresolved names.
C17_CycleExceedsDepth ==
    (usesGraph /\ resolveCalled /\ \E n \in placeholdersOf(rTemplate) : onCycle(n)) =>
        /\ rResult.status = "depth"
        /\ rResult.value = <<>>
        /\ rResult.unresolved = <<>>

C17_Witness ==
    /\ usesGraph
    /\ ~rStrict
    /\ rMaxDepth = DefaultMaxDepth
    /\ rTemplate = <<Ph(Plain("missing")), Ph(Plain("x"))>>
    /\ rResult.status = "depth"

\* C18: with maximum depth D, {{c1}} over a chain of n values that each
\* contain a placeholder resolves to the final literal (with the text of
\* every link) when n <= D and fails with depth-exceeded when n > D.
C18_ChainResolvesUpToMaxDepth ==
    (usesGraph /\ rTemplate = <<Ph(Link(1))>>) =>
        IF chainLength <= rMaxDepth
        THEN /\ rResult.status = "ok"
             /\ rResult.value = [i \in 1..chainLength |-> Lit("/")] \o <<Lit("end")>>
        ELSE rResult.status = "depth"

C18_Witness ==
    /\ usesGraph
    /\ rTemplate = <<Ph(Link(1))>>
    /\ rMaxDepth = DefaultMaxDepth
    /\ chainLength = DefaultMaxDepth
    /\ rResult.status = "ok"
    /\ Len(rResult.value) = DefaultMaxDepth + 1

\* C19: a placeholder whose name no source has and that is no built-in is,
\* in lenient mode, left in the result as it was written and listed as
\* unresolved; in strict mode resolve fails naming it and returns no value.
C19_AbsentNameLeftOrRaised ==
    (resolveCalled /\ rResult.status # "depth" /\ absentNames # {}) =>
        IF rStrict
        THEN /\ rResult.status = "unresolved"
             /\ rResult.value = <<>>
             /\ absentNames \subseteq Range(rResult.unresolved)
        ELSE /\ rResult.status = "ok"
             /\ \A n \in absentNames : Ph(n) \in Range(rResult.value)
             /\ absentNames \subseteq Range(rResult.unresolved)
             /\ absentNames = placeholdersOf(rTemplate) => rResult.value = rTemplate

C19_Witness ==
    /\ rStrict
    /\ rTemplate = <<Ph(EnvName("gone")), Ph(Dollar("nothing"))>>
    /\ rResult.status = "unresolved"
    /\ rResult.unresolved = <<EnvName("gone"), Dollar("nothing")>>

isBuiltin(name) == name.pre = "$" /\ toLowerCase(name.id) \in BuiltinNames
builtinAt(str) == {i \in 1..Len(str) : str[i].k = "ph" /\ isBuiltin(str[i].n)}
generatedAt(str) == {i \in 1..Len(str) : str[i].k = "gen"}

\* C21: a placeholder naming a built-in ($uuid, $timestamp, $isodate,
\* $randomInt) is replaced by a value of that generator and by no value a
\* source or the Session holds under the name, and no two generated values
\* of one result come from the same call of a generator.  (Every value that
\* replaces a placeholder of these templates is one piece, so piece i of the
\* result stands where piece i of the template stood.)
C21_BuiltinsGeneratedPerOccurrence ==
    (resolveCalled /\ rResult.status = "ok" /\ builtinAt(rTemplate) # {}
       /\ Len(rResult.value) = Len(rTemplate)) =>
        /\ \A i \in builtinAt(rTemplate) :
              /\ rResult.value[i].k = "gen"
              /\ rResult.value[i].n.pre = toLowerCase(rTemplate[i].n.id)
        /\ \A i, j \in generatedAt(rResult.value) :
              i # j => rResult.value[i].n.id # rResult.value[j].n.id

C21_Witness ==
    /\ rInput = <<NamedSource, getVariableSource>>
    /\ Dollar("uuid") \in DOMAIN sessionVariables
    /\ rTemplate = <<Ph(Dollar("uuid")), Lit("-"), Ph(Dollar("uuid"))>>
    /\ rResult.status = "ok"
    /\ rResult.value[1].k = "gen"
    /\ rResult.value[3].k = "gen"
    /\ rResult.value[1] # rResult.value[3]

\* the template is one placeholder written with the env. prefix
envPlaceholder ==
    /\ resolveCalled
    /\ Len(rTemplate) = 1
    /\ rTemplate[1].k = "ph"
    /\ rTemplate[1].n.pre = "env."
\* the name written after the prefix, and the result of resolving it bare
bareName == slice(rTemplate[1].n.id)
bareResult == resolve(rSources, sessionVariables, rStrict, rMaxDepth, <<Ph(bareName)>>)

definedOnlyInEnv(name) ==
    /\ name \in DOMAIN DotEnvSource.values \cup DOMAIN SystemEnvSource.values
    /\ name \notin DOMAIN sessionAtEntry
    /\ \A i \in 1..Len(userSources) : name \notin DOMAIN userSources[i].values

\* C23: a bare {{NAME}} whose name only the .env files or the system
\* environment define is not resolved: the Resolve step leaves it in the
\* request as written.
C23_BareNameNotResolvedFromEnv ==
    (stages # <<>> /\ outcome # "raised" /\ pc # "idle") =>
        \A i \in 1..Len(request.url) :
            (/\ request.url[i].k = "ph"
             /\ request.url[i].n.pre = ""
             /\ definedOnlyInEnv(request.url[i].n)) =>
                request.url[i] \in Range(resolved.url)

\* ------------------------------------------------------------------------
\* Transport failures and supplied variables
\* ------------------------------------------------------------------------
networkFailed == transportDone /\ answered.error # "none"

\* C27: when the network fails (request() rejects), execute does not raise:
\* the transport returns a response with status 0 and the failure's message
\* as body, and the run goes on, the post-script of a request that has one
\* being run.
C27_NetworkFailureIsAResponse ==
    networkFailed =>
        /\ outcome # "raised"
        /\ fromTransport.status = 0
        /\ fromTransport.statusText = "Error"
        /\ fromTransport.body = <<answered.error>>
        /\ request.post => (pc = "post" \/ postScriptDone)
        /\ ~request.post => (outcome = "returned" /\ response = fromTransport)

C27_Witness ==
    /\ networkFailed
    /\ postScriptDone
    /\ postHow = "ok"
    /\ outcome = "returned"
    /\ response.status = 0
    /\ response.body = <<"connect ECONNREFUSED">>

\* C29: every variable passed to executeWithVariables is readable through
\* radius.getVariable, with the value passed, while the pre-script and the
\* post-script of that request run.
C29_SuppliedVariablesReadable ==
    (pc \in {"pre", "post"} /\ supplied # EmptyMap) =>
        \A name \in DOMAIN supplied :
            MapGet(ctxVariables, name, Undefined) = supplied[name]

\* ------------------------------------------------------------------------
\* Saving and loading the Session
\* ------------------------------------------------------------------------
\* C28: loadFromFile into an empty Session of a file saveToFile wrote
\* yields the getAll() the saved Session had (every value here is a string,
\* a number, a boolean or null); loadFromFile into a Session that is not
\* empty overwrites the names the file holds and leaves the others.
C28_SaveLoadRoundTrip ==
    [][(stages' = <<"loadFromFile">>) =>
          /\ sessionVariables = EmptyMap => getAll(sessionVariables') = saved
          /\ \A key \in DOMAIN sessionVariables \ DOMAIN file.data :
                key \in DOMAIN sessionVariables'
                /\ sessionVariables'[key] = sessionVariables[key]]_vars

\* ------------------------------------------------------------------------
\* Properties of the run command
\* ------------------------------------------------------------------------
runEnded == cliPc = "exited"
directoryRun == target.kind = "dir"
\* the .rd files of the target directory
rdNames ==
    {target.entries[i].name :
        i \in {j \in 1..Len(target.entries) :
                 target.entries[j].isFile /\ endsWithRd(target.entries[j].name)}}
ranFiles == {results[i].file : i \in 1..Len(results)}
someFileFailed == \E i \in 1..Len(results) : results[i].failed

C25_FilesOnceInOrderOneSession ==
    (directoryRun /\ cliPc \in {"loop", "save", "exited"}) =>
        /\ \A i \in 1..Len(results) :
              /\ results[i].file \in rdNames
              /\ Cardinality({n \in rdNames : nameRank(n) < nameRank(results[i].file)})
                   = i - 1
        /\ cliPc \in {"save", "exited"} /\ rdNames # {} =>
              Len(results) = Cardinality(rdNames)
        /\ cliPc = "loop" =>
              /\ sessionAttached
              /\ Cardinality({i \in 1..Len(sources) : sources[i].name = "Session"}) = 1
        /\ (stages # <<>> /\ outcome # "raised") =>
              \A name \in DOMAIN mergedAtEntry :
                  /\ name \in DOMAIN sessionAtEntry
                  /\ sessionAtEntry[name] = mergedAtEntry[name]

C25_Witness ==
    /\ directoryRun
    /\ cliPc = "loop"
    /\ Len(files) = 3
    /\ Len(results) = 2
    /\ results[1].file = "a.rd"
    /\ results[2].file = "b.rd"
    /\ pc = "transport"
    /\ Plain("token") \in DOMAIN mergedAtEntry
    /\ resolved.headers = <<Lit("Bearer "), Lit("T1")>>

\* what went wrong in the one file of a single-file run
depthExceeded == outcome = "raised"
preScriptFailed == preHow \in {"throw", "raise", "timeout"}
postScriptFailed == postHow \in {"throw", "raise", "timeout"}
assertionFailed == \E i \in 1..Len(ctxAssertions) : ~ctxAssertions[i].passed

\* C26: a single-file run exits nonzero when resolution exceeded the depth
\* limit, when the pre-script or the post-script failed, when an assertion
\* failed and when the network failed.
C26_SingleFileExitsNonzeroOnFailure ==
    (runEnded /\ target.kind = "file" /\ Len(results) = 1
       /\ (depthExceeded \/ preScriptFailed \/ postScriptFailed \/ assertionFailed
             \/ networkFailed)) =>
        exitCode # 0

\* C30: with --save-vars, a run whose target exists and that executed files
\* ends with the Session's variables written to the file, whether or not a
\* request failed (a file that cannot be written aside).
C30_SessionSavedAfterEveryRun ==
    (runEnded /\ saveVars /\ Len(results) > 0 /\ ~file.failed) =>
        /\ file.written
        /\ file.data = saveToFile(sessionVariables)

\* ------------------------------------------------------------------------
\* What a script failure does to the Session, and lenient resolution
\* ------------------------------------------------------------------------
\* the last value the running script wrote to each name through setVariable
lastWriteTo(name) ==
    LET at == {i \in 1..Len(calls) : isWrite(calls[i]) /\ calls[i].name = name}
    IN  calls[CHOOSE i \in at : \A j \in at : j <= i].value
writtenNames == {calls[i].name : i \in {j \in 1..Len(calls) : isWrite(calls[j])}}

\* C36: when the pre-script fails the Session is exactly what it was before
\* execute was called: the variables the script set before it failed are
\* not merged, so no later request resolves or reads them.
C36_FailedPreScriptLeavesSession ==
    preFailed =>
        /\ sessionVariables = sessionAtEntry
        /\ lastMerged = mergedAtEntry

C36_Witness ==
    /\ sessionAttached
    /\ preHow = "throw"
    /\ pc = "done"
    /\ Plain("token") \in writtenNames
    /\ Plain("token") \notin DOMAIN sessionVariables

\* C37: when the post-script fails after setting variables, those
\* variables are in the Session with the values it set, where later
\* requests resolve them, and the logs and assertions it recorded before
\* failing are attached to the response.
postFailed == postHow \in {"throw", "timeout"}

C37_FailedPostScriptStillMerged ==
    (sessionAttached /\ postFailed /\ pc = "done") =>
        /\ \A name \in writtenNames :
            /\ name \in DOMAIN sessionVariables
            /\ sessionVariables[name] = lastWriteTo(name)
        /\ \A i \in 1..Len(calls) :
            isOutput(calls[i]) =>
                \E j \in 1..Len(response.scriptLogs) : response.scriptLogs[j] = calls[i].text
        /\ LET made == SelectSeq(calls, isExpect)
               kept == response.assertions
           IN  /\ Len(kept) >= Len(made)
               /\ \A i \in 1..Len(made) :
                    /\ kept[Len(kept) - Len(made) + i].actual = made[i].actual
                    /\ kept[Len(kept) - Len(made) + i].expected = made[i].expected

C37_Witness ==
    /\ sessionAttached
    /\ postHow = "throw"
    /\ pc = "done"
    /\ Plain("token") \in writtenNames
    /\ Plain("token") \notin DOMAIN sessionAtEntry
    /\ sessionVariables[Plain("token")] = lastWriteTo(Plain("token"))

\* C38: no step of any sequence of execute calls removes a name from the
\* Session; a step changes the value of a name only when the script that
\* just ended wrote that name, and leaves every other name as it was.
C38_SessionNamesOnlyGrow ==
    [][/\ DOMAIN sessionVariables \subseteq DOMAIN sessionVariables'
       /\ \A name \in DOMAIN sessionVariables :
            sessionVariables'[name] # sessionVariables[name] => name \in DOMAIN written
      ]_vars

C38_Witness ==
    /\ fileIdx >= 1
    /\ pc = "done"
    /\ postHow = "throw"
    /\ sessionAtEntry # EmptyMap
    /\ DOMAIN sessionAtEntry \subseteq DOMAIN sessionVariables
    /\ DOMAIN sessionAtEntry # DOMAIN sessionVariables

\* C39: the runner resolves leniently: a placeholder nothing defines never
\* aborts a request, which is sent with the literal {{name}}; execute
\* raises only when resolution exceeds the depth limit, and then before
\* any script or transport call.
lenientAtEntry == resolveObject(sources, sessionAtEntry, FALSE, DefaultMaxDepth, request)
definedNowhere(name) ==
    /\ name.pre # "$"
    /\ \A i \in 1..Len(sources) :
         SourceGet(sources[i], IF name.pre = "env." THEN slice(name.id) ELSE name,
                   sessionAtEntry) = NoString
leftLiteral(template, result) ==
    \A n \in placeholdersOf(template) : definedNowhere(n) => Ph(n) \in Range(result)

C39_RunnerResolvesLeniently ==
    (pc # "idle" /\ Len(stages) >= 1 /\ stages[1] = "Resolve") =>
        /\ (outcome = "raised") = (lenientAtEntry.status = "depth")
        /\ outcome = "raised" =>
            /\ stages = <<"Resolve">>
            /\ calls = <<>>
            /\ sent = NoRequest
            /\ preHow = "none" /\ postHow = "none"
        /\ transportDone =>
            /\ leftLiteral(request.url, sent.url)
            /\ leftLiteral(request.headers, sent.headers)
            /\ leftLiteral(request.body, sent.body)

C39_Witness ==
    /\ transportDone
    /\ pc = "done"
    /\ request.headers = <<Ph(Plain("missing"))>>
    /\ sent.headers = <<Ph(Plain("missing"))>>
    /\ outcome = "returned"

C39_DepthWitness ==
    /\ outcome = "raised"
    /\ pc = "done"

\* ------------------------------------------------------------------------
\* Sources of equal priority
\* ------------------------------------------------------------------------
positionOf(srcs, sourceName) == CHOOSE k \in 1..Len(srcs) : srcs[k].name = sourceName
firstHighestDefiningA ==
    CHOOSE i \in definingA :
        \A j \in definingA :
            \/ rInput[j].priority < rInput[i].priority
            \/ (rInput[j].priority = rInput[i].priority /\ i <= j)

\* C34: among sources of equal priority the one supplied earlier is
\* consulted first: the sort leaves sources of equal priority in the order
\* they were passed, and a name resolves to the value of the first-supplied
\* source among the highest-priority sources that define it.
C34_EqualPrioritiesKeepSuppliedOrder ==
    (resolveCalled /\ rInput \in SourceLists) =>
        /\ \A i, j \in 1..Len(rInput) :
            (i < j /\ rInput[i].priority = rInput[j].priority) =>
                positionOf(rSources, rInput[i].name) < positionOf(rSources, rInput[j].name)
        /\ (rTemplate = <<Ph(KeyA)>> /\ definingA # {}) =>
            /\ rResult.status = "ok"
            /\ rResult.value = rInput[firstHighestDefiningA].values[KeyA]

C34_Witness ==
    /\ resolveCalled
    /\ rTemplate = <<Ph(KeyA)>>
    /\ Len(rInput) = 3
    /\ rInput[1].priority = 100
    /\ rInput[2].priority = 300
    /\ rInput[3].priority = 300
    /\ definingA = {1, 2, 3}
    /\ rResult.value = TextOf("s2", KeyA)

\* ------------------------------------------------------------------------
\* Values that contain a dollar sign
\* ------------------------------------------------------------------------
\* the value lookup returns for a plain name the named source holds
namedValue(name) == NamedSource.values[name]
plainNamed(piece) ==
    /\ piece.k = "ph"
    /\ piece.n.pre = ""
    /\ piece.n \in DOMAIN NamedSource.values
    /\ ~hasVariables(namedValue(piece.n))
RECURSIVE substituted(_)
substituted(template) ==
    IF template = <<>> THEN <<>>
    ELSE (IF plainNamed(Head(template)) THEN namedValue(Head(template).n)
          ELSE <<Head(template)>>) \o substituted(Tail(template))

\* C40: a value without placeholders is substituted verbatim, a value with
\* $$, $& or $1 in it included, and every placeholder occurrence is
\* replaced at its own position.
C40_SubstitutionVerbatim ==
    (/\ resolveCalled
     /\ rInput \in NamedSourceLists
     /\ \A i \in 1..Len(rTemplate) : rTemplate[i].k = "ph" => plainNamed(rTemplate[i])) =>
        /\ rResult.status = "ok"
        /\ rResult.value = substituted(rTemplate)

\* ------------------------------------------------------------------------
\* expect(actual).toEqual(expected) on its own
\* ------------------------------------------------------------------------
\* the runner, its resolver, sandbox and Session, and the run command
programVars ==
    <<pc, fileIdx, userSources, sources, sessionAttached, sessionVariables,
      request, resolved, ctxVariables, ctxLogs, ctxAssertions, consoleLogs,
      ops, response, outcome, stages, sent, fromTransport, written,
      preWritten, postRecorded, sessionAtEntry, preHow, postHow,
      lastMerged, mergedAtEntry, calls, scriptResult, hostVars, resolverVars,
      answered, supplied, cliVars>>

\* everything of the model but the toEqual check
expectUnused == <<programVars, responseVars, dotenvVars>>

\* typeof value
typeOf(value) ==
    IF value.kind \in {"mapping", "sequence", "null"} THEN "object" ELSE value.kind

\* Object.is(a, b): primitives are compared by value; a mapping or a
\* sequence is only itself, and the two sides are built apart
ObjectIs(a, b) == a.kind \notin {"mapping", "sequence"} /\ a = b

\* Object.keys(value): the keys of a mapping, the indices of a sequence
ObjectKeys(value) == DOMAIN value.fields

\* ExpectBuilderImpl.deepEqual
RECURSIVE deepEqual(_, _)
deepEqual(a, b) ==
    IF ObjectIs(a, b) THEN TRUE
    ELSE IF typeOf(a) # typeOf(b) THEN FALSE
    ELSE IF a = JsNull \/ b = JsNull THEN FALSE
    ELSE IF typeOf(a) # "object" THEN FALSE
    ELSE IF Cardinality(ObjectKeys(a)) # Cardinality(ObjectKeys(b)) THEN FALSE
    ELSE \A key \in ObjectKeys(a) :
            deepEqual(a.fields[key], MapGet(b.fields, key, JsUndefined))

\* ExpectBuilderImpl.toEqual
toEqual(actual, expected) ==
    [made |-> TRUE, actual |-> actual, expected |-> expected,
     passed |-> deepEqual(actual, expected)]

\* the values scripts compare: primitives, mappings and sequences, some
\* nested, some holding undefined
JsOne == JsPrimitive("number", "1")
JsTwo == JsPrimitive("number", "2")
ExpectValues ==
    {JsOne, JsTwo, JsPrimitive("string", "1"), JsUndefined, JsNull,
     JsMapping(EmptyMap), JsSequence(EmptyMap),
     JsMapping("a" :> JsOne), JsMapping("a" :> JsTwo),
     JsMapping("a" :> JsUndefined), JsMapping("b" :> JsUndefined),
     JsMapping("0" :> JsOne), JsSequence("0" :> JsOne),
     JsMapping(("a" :> JsOne) @@ ("b" :> JsTwo)),
     JsSequence(("0" :> JsOne) @@ ("1" :> JsTwo)),
     JsMapping("a" :> JsMapping("b" :> JsOne)),
     JsMapping("a" :> JsMapping("b" :> JsTwo)),
     JsSequence("0" :> JsSequence("0" :> JsOne))}

\* radius.expect(actual).toEqual(expected)
ToEqual(actual, expected) ==
    /\ expectation' = toEqual(actual, expected)
    /\ UNCHANGED expectUnused

NextExpect == \E actual \in ExpectValues, expected \in ExpectValues : ToEqual(actual, expected)

SpecExpect == Init /\ [][NextExpect]_vars

\* C33: toEqual records passed = true exactly when the two values are
\* deeply structurally equal: of the same kind (mapping, sequence,
\* primitive), with the same set of keys and deeply equal values under them.
C33_ToEqualIsStructuralEquality ==
    expectation.made => (expectation.passed = (expectation.actual = expectation.expected))

\* ------------------------------------------------------------------------
\* The response view of a post-script
\* ------------------------------------------------------------------------
responseUnused == <<programVars, expectation, dotenvVars>>

\* JSON.parse(text): the document, or a SyntaxError
JsonInvalid == [kind |-> "invalid", fields |-> EmptyMap]
JSONparse(text) ==
    CASE text = "{\"token\":\"T1\"}" -> JsonObject("token" :> "T1")
      [] text = "{}" -> JsonObject(EmptyMap)
      [] text = "null" -> JsonNull
      [] OTHER -> JsonInvalid
ResponseBodies == {"{\"token\":\"T1\"}", "{}", "null", "<html>"}

\* contentType && contentType.includes('application/json')
ResponseHeaders ==
    {("content-type" :> "application/json; charset=utf-8"),
     ("content-type" :> "text/plain"),
     EmptyMap}
isJson(headers) ==
    /\ "content-type" \in DOMAIN headers
    /\ headers["content-type"] \in {"application/json", "application/json; charset=utf-8"}

\* HttpClient.execute, "Parse JSON if possible": jsonBody stays null for
\* another content type and for a body that does not parse
jsonBody(headers, body) ==
    IF isJson(headers) /\ JSONparse(body) # JsonInvalid THEN JSONparse(body) ELSE JsonNull

\* the responses HttpClient.execute returns
ClientResponses ==
    {[status |-> 200, statusText |-> getStatusText(200), headers |-> h, body |-> b,
      json |-> jsonBody(h, b)] : h \in ResponseHeaders, b \in ResponseBodies}

\* new ResponseContextImpl(response): headers is a copy, _json is the
\* response's own json value
ResponseContextImpl(resp) ==
    [made |-> TRUE, status |-> resp.status, statusText |-> resp.statusText,
     headers |-> resp.headers, body |-> resp.body, json |-> resp.json,
     jsonParsed |-> FALSE]

\* ResponseContextImpl.json(): what the call returns or that it throws,
\* where the value returned comes from, and _jsonParsed afterwards
json(v) ==
    IF v.json # JsonNull
    THEN [threw |-> FALSE, value |-> v.json, from |-> "response", jsonParsed |-> v.jsonParsed]
    ELSE IF ~v.jsonParsed
    THEN IF JSONparse(v.body) # JsonInvalid
         THEN [threw |-> FALSE, value |-> JSONparse(v.body), from |-> "parse",
               jsonParsed |-> TRUE]
         ELSE [threw |-> TRUE, value |-> JsonNull, from |-> "none", jsonParsed |-> TRUE]
    ELSE [threw |-> TRUE, value |-> JsonNull, from |-> "none", jsonParsed |-> TRUE]

\* ScriptSandbox.runPost(script, response): the transport has returned
\* resp and the script is given a view of it
RunPost(resp) ==
    /\ ~view.made
    /\ httpResponse' = resp
    /\ fromClient' = resp
    /\ view' = ResponseContextImpl(resp)
    /\ jsonCalls' = <<>>
    /\ handle' = NoHandle
    /\ UNCHANGED responseUnused

\* the script calls response.json()
Json ==
    LET call == json(view)
    IN  /\ view.made
        /\ Len(jsonCalls) < MaxJsonCalls
        /\ jsonCalls' = Append(jsonCalls, [threw |-> call.threw, value |-> call.value])
        /\ view' = [view EXCEPT !.jsonParsed = call.jsonParsed]
        /\ handle' = IF call.threw THEN handle
                     ELSE [from |-> call.from, value |-> call.value]
        /\ UNCHANGED <<httpResponse, fromClient>>
        /\ UNCHANGED responseUnused

\* the script assigns response.status and response.statusText: readonly
\* is checked when the class is compiled, the fields are plain properties
AssignStatus(status) ==
    /\ view.made
    /\ view.status # status
    /\ view' = [view EXCEPT !.status = status, !.statusText = getStatusText(status)]
    /\ UNCHANGED <<httpResponse, fromClient, jsonCalls, handle>>
    /\ UNCHANGED responseUnused

\* the script sets response.headers[name]
SetHeader(name, value) ==
    /\ view.made
    /\ MapGet(view.headers, name, "") # value
    /\ view' = [view EXCEPT !.headers = MapSet(view.headers, name, value)]
    /\ UNCHANGED <<httpResponse, fromClient, jsonCalls, handle>>
    /\ UNCHANGED responseUnused

\* the script sets a key of the value a json() call returned; a value
\* that is the response's own json is changed there too
MutateJson(key, value) ==
    LET changed == JsonObject(MapSet(handle.value.fields, key, value))
    IN  /\ view.made
        /\ handle.from # "none"
        /\ handle.value.kind = "object"
        /\ handle.value # changed
        /\ handle' = [handle EXCEPT !.value = changed]
        /\ IF handle.from = "response"
           THEN /\ view' = [view EXCEPT !.json = changed]
                /\ httpResponse' = [httpResponse EXCEPT !.json = changed]
           ELSE UNCHANGED <<view, httpResponse>>
        /\ UNCHANGED <<fromClient, jsonCalls>>
        /\ UNCHANGED responseUnused

NextResponse ==
    \/ \E resp \in ClientResponses : RunPost(resp)
    \/ Json
    \/ AssignStatus(404)
    \/ SetHeader("content-type", "text/script")
    \/ MutateJson("token", "changed")

SpecResponse == Init /\ [][NextResponse]_vars

\* C31: response.json() raises only when the body is not valid JSON; for a
\* body that is valid JSON every call returns the parsed value, however
\* many calls the script makes and whether or not the transport had
\* parsed the body.
C31_JsonReturnsParsedBodyEveryCall ==
    view.made =>
        \A i \in 1..Len(jsonCalls) :
            IF JSONparse(fromClient.body) = JsonInvalid THEN jsonCalls[i].threw
            ELSE /\ ~jsonCalls[i].threw
                 /\ handle.value = JSONparse(fromClient.body) =>
                        jsonCalls[i].value = JSONparse(fromClient.body)

\* C32: whatever the post-script does to the view (assigning its fields,
\* changing its headers, changing the value json() returned), the response
\* execute returns has the status, status text, headers, raw body and
\* parsed JSON the transport returned.
C32_ResponseUnchangedByScript ==
    view.made =>
        /\ httpResponse.status = fromClient.status
        /\ httpResponse.statusText = fromClient.statusText
        /\ httpResponse.headers = fromClient.headers
        /\ httpResponse.body = fromClient.body
        /\ httpResponse.json = fromClient.json

\* ------------------------------------------------------------------------
\* A DotEnvSource and concurrent calls of its get
\* ------------------------------------------------------------------------
dotenvUnused == <<programVars, expectation, responseVars>>

\* parseDotEnv of the two files: KEY is in both
EnvFile == ("KEY" :> "base") @@ ("BASE_ONLY" :> "b")
EnvLocalFile == ("KEY" :> "local") @@ ("LOCAL_ONLY" :> "l")
EnvKeys == {"KEY", "BASE_ONLY"}

\* loadFile, once readFile has completed: every entry of the file is set
\* in the cache the source has at that moment
loadFile(cache, parsed) ==
    [key \in DOMAIN cache \cup DOMAIN parsed |->
        IF key \in DOMAIN parsed THEN parsed[key] ELSE cache[key]]

\* this.cache?.get(key)
cacheGet(source, key) ==
    IF source.hasCache THEN MapGet(source.cache, key, NotInCache) ELSE NotInCache

\* get(key) up to its first wait: it returns from the cache when loaded is
\* set, else ensureLoaded replaces the cache by an empty one and starts
\* reading .env
Get(g, key) ==
    /\ getters[g].at = "idle"
    /\ IF dotenv.loaded
       THEN /\ getters' = [getters EXCEPT ![g] =
                              [at |-> "done", key |-> key, value |-> cacheGet(dotenv, key)]]
            /\ UNCHANGED dotenv
       ELSE /\ getters' = [getters EXCEPT ![g] =
                              [at |-> "readEnv", key |-> key, value |-> NotInCache]]
            /\ dotenv' = [hasCache |-> TRUE, cache |-> EmptyMap, loaded |-> FALSE]
    /\ UNCHANGED dotenvUnused

\* readFile(.env) completes for caller g: its entries go into the cache
\* and the read of .env.local starts (loadLocal is true)
EnvRead(g) ==
    /\ getters[g].at = "readEnv"
    /\ dotenv' = [dotenv EXCEPT !.cache = loadFile(dotenv.cache, EnvFile)]
    /\ getters' = [getters EXCEPT ![g].at = "readLocal"]
    /\ UNCHANGED dotenvUnused

\* readFile(.env.local) completes for caller g: its entries go into the
\* cache, loaded is set and get returns what the cache holds for the key
EnvLocalRead(g) ==
    LET after == [dotenv EXCEPT !.cache = loadFile(dotenv.cache, EnvLocalFile),
                                !.loaded = TRUE]
    IN  /\ getters[g].at = "readLocal"
        /\ dotenv' = after
        /\ getters' = [getters EXCEPT ![g].at = "done",
                                      ![g].value = cacheGet(after, getters[g].key)]
        /\ UNCHANGED dotenvUnused

NextDotEnv ==
    \/ \E g \in 1..MaxGetters, key \in EnvKeys : Get(g, key)
    \/ \E g \in 1..MaxGetters : EnvRead(g)
    \/ \E g \in 1..MaxGetters : EnvLocalRead(g)

SpecDotEnv == Init /\ [][NextDotEnv]_vars

\* C35: for a key that is in .env and in .env.local every get returns the
\* value of .env.local, concurrent gets made before the first load has
\* completed included: no caller sees the value of .env or a cache that
\* is only partly loaded.
C35_LocalValueOnEveryGet ==
    \A g \in 1..MaxGetters :
        (getters[g].at = "done" /\ getters[g].key \in DOMAIN EnvLocalFile) =>
            getters[g].value = EnvLocalFile[getters[g].key]
====
